---------------------------- MODULE Spec2Model ----------------------------
(***************************************************************************)
(* Model of the resource/project matching engine and the insight store of  *)
(* the agency platform (packages/mock-data and apps/api).                  *)
(*                                                                         *)
(* Text is modelled as a sequence of characters, each character being a    *)
(* one-token string: "a", "A", " ", "a_acute" (U+00E1), "comb_acute"       *)
(* (U+0301), ...  Numbers are exact rationals <<n, d>> with d > 0.         *)
(***************************************************************************)
EXTENDS Integers, Sequences, FiniteSets, TLC

VARIABLES
    \* ---- slugify calls (shared.ts / dataset.ts) ----
    slugCall,       \* "none" | "first" | "again": the last slugify call made
    slugOrig,       \* the text the caller started from
    slugIn,         \* the argument of the last slugify call
    slugOut,        \* its result
    \* ---- matching (core.ts, index.ts, dataset.ts) ----
    call,           \* "none" | "core" | "api" | "load": the builder that ran last
    inResources,    \* the resources the builder was given (or built from records)
    inProjects,     \* the projects the builder was given (or built from records)
    inRows,         \* the affinity rows read by loadMockData
    rowOut,         \* per affinity row, the recommendations buildRecommendation returned
    recs,           \* the recommendation list the builder returned
    divisors,       \* the denominators of the divisions the builder evaluated
    \* ---- insight store (insights-store.ts) ----
    store,          \* content of insights_store.json
    prevStore,      \* content before the last store operation
    lastOp,         \* the last store operation, its argument and its I/O outcome
    sameAgain,      \* TRUE when the last upsert repeated the one just before it
    \* ---- insight generation (azure-openai.ts) ----
    payload,        \* the InsightPayload of the last call
    profiles,       \* the candidate profiles computed from it
    gen,            \* the last generateInsights call: inputs, steps taken, result
    \* ---- concurrent callers of the insight store ----
    race,           \* per caller of upsertStoredInsights: its position and what it read
    \* ---- catalog and dataset loaders (prodam.ts, index.ts, dataset.ts) ----
    loader,         \* the last loader call: the files it found and what it gave back
    \* ---- batch re-analysis (page.tsx) ----
    batch           \* reanalyzeEmployees: its position, its locals, the component state

vars == <<slugCall, slugOrig, slugIn, slugOut,
          call, inResources, inProjects, inRows, rowOut, recs, divisors,
          store, prevStore, lastOp, sameAgain,
          payload, profiles, gen,
          race, loader, batch>>

slugVars == <<slugCall, slugOrig, slugIn, slugOut>>
matchVars == <<call, inResources, inProjects, inRows, rowOut, recs, divisors>>
storeVars == <<store, prevStore, lastOp, sameAgain>>
insightVars == <<payload, profiles, gen>>
raceVars == <<race>>
loadVars == <<loader>>
webVars == <<batch>>

-----------------------------------------------------------------------------
(* Bounds of the model *)

MaxSlugLen == 3      \* longest text handed to slugify
MaxSkills == 2       \* longest skill list of a resource given to a builder
MaxNeeds == 2        \* longest need list of a project given to a builder
MaxRows == 2         \* most affinity rows read by loadMockData
MaxBatch == 2        \* longest record batch handed to upsertStoredInsights

-----------------------------------------------------------------------------
(* Sequences and text *)

RECURSIVE SeqsUpTo(_, _)
\* All sequences over S of length at most n.
SeqsUpTo(S, n) ==
    IF n = 0 THEN {<<>>}
    ELSE LET shorter == SeqsUpTo(S, n - 1)
         IN  shorter \cup {Append(s, x) : s \in {t \in shorter : Len(t) = n - 1}, x \in S}

RECURSIVE Concat(_)
\* Flattens a sequence of sequences.
Concat(ss) == IF ss = <<>> THEN <<>> ELSE Head(ss) \o Concat(Tail(ss))

MapSeq(F(_), s) == [i \in 1..Len(s) |-> F(s[i])]

RECURSIVE FilterSeq(_, _)
FilterSeq(P(_), s) ==
    IF s = <<>> THEN <<>>
    ELSE IF P(Head(s)) THEN <<Head(s)>> \o FilterSeq(P, Tail(s))
    ELSE FilterSeq(P, Tail(s))

Range(s) == {s[i] : i \in 1..Len(s)}

LowerSeq == <<"a", "b", "c", "d", "e", "f", "g", "h", "i", "j", "k", "l", "m",
              "n", "o", "p", "q", "r", "s", "t", "u", "v", "w", "x", "y", "z">>
UpperSeq == <<"A", "B", "C", "D", "E", "F", "G", "H", "I", "J", "K", "L", "M",
              "N", "O", "P", "Q", "R", "S", "T", "U", "V", "W", "X", "Y", "Z">>
LowerLetters == Range(LowerSeq)
UpperLetters == Range(UpperSeq)
DigitChars == {"0", "1", "2", "3", "4", "5", "6", "7", "8", "9"}
\* String.prototype.trim and \s: blanks
WhiteSpace == {" ", "\t"}
\* characters with the Unicode property Diacritic: combining marks, and the
\* spacing marks circumflex (U+005E) and grave (U+0060)
DiacriticChars == {"comb_acute", "comb_tilde", "circumflex", "grave"}

\* String.prototype.normalize("NFD"): canonical decomposition of one character
NfdChar(c) ==
    CASE c = "a_acute" -> <<"a", "comb_acute">>
      [] c = "A_acute" -> <<"A", "comb_acute">>
      [] c = "a_tilde" -> <<"a", "comb_tilde">>
      [] c = "A_tilde" -> <<"A", "comb_tilde">>
      [] OTHER -> <<c>>

Nfd(s) == Concat(MapSeq(NfdChar, s))

\* String.prototype.toLowerCase on one character
LowerChar(c) ==
    CASE c \in UpperLetters -> LowerSeq[CHOOSE i \in 1..Len(UpperSeq) : UpperSeq[i] = c]
      [] c = "A_acute" -> "a_acute"
      [] c = "A_tilde" -> "a_tilde"
      [] OTHER -> c

\* String.prototype.toUpperCase on one character
UpperChar(c) ==
    CASE c \in LowerLetters -> UpperSeq[CHOOSE i \in 1..Len(LowerSeq) : LowerSeq[i] = c]
      [] c = "a_acute" -> "A_acute"
      [] c = "a_tilde" -> "A_tilde"
      [] OTHER -> c

ToLowerCase(s) == MapSeq(LowerChar, s)
ToUpperCase(s) == MapSeq(UpperChar, s)

RECURSIVE TrimLeft(_, _)
\* Drops the leading characters of s that are in S.
TrimLeft(s, S) ==
    IF s # <<>> /\ Head(s) \in S THEN TrimLeft(Tail(s), S) ELSE s

RECURSIVE TrimRight(_, _)
TrimRight(s, S) ==
    IF s # <<>> /\ s[Len(s)] \in S THEN TrimRight(SubSeq(s, 1, Len(s) - 1), S) ELSE s

\* String.prototype.trim
Trim(s) == TrimRight(TrimLeft(s, WhiteSpace), WhiteSpace)

RECURSIVE SplitAcc(_, _, _)
\* String.prototype.split(delimiter): cur is the fragment being read.
SplitAcc(s, delim, cur) ==
    IF s = <<>> THEN <<cur>>
    ELSE IF Head(s) = delim THEN <<cur>> \o SplitAcc(Tail(s), delim, <<>>)
    ELSE SplitAcc(Tail(s), delim, Append(cur, Head(s)))

Split(s, delim) == SplitAcc(s, delim, <<>>)

-----------------------------------------------------------------------------
(* shared.ts: slugify *)

IsSlugAlnum(c) == c \in LowerLetters \cup DigitChars

RECURSIVE ReplaceNonAlnumRuns(_)
\* .replace(/[^a-z0-9]+/g, "-"): every maximal run of other characters
\* becomes one hyphen.
ReplaceNonAlnumRuns(s) ==
    IF s = <<>> THEN <<>>
    ELSE IF IsSlugAlnum(Head(s)) THEN <<Head(s)>> \o ReplaceNonAlnumRuns(Tail(s))
    ELSE <<"-">> \o ReplaceNonAlnumRuns(TrimLeft(Tail(s), {c \in Range(s) : ~IsSlugAlnum(c)}))

\* .replace(/\p{Diacritic}/gu, "")
StripDiacritics(s) == FilterSeq(LAMBDA c : c \notin DiacriticChars, s)

\* .replace(/^-+|-+$/g, "")
TrimHyphens(s) == TrimRight(TrimLeft(s, {"-"}), {"-"})

\* A slugify whose two last replace calls are swapped: hyphens are trimmed
\* before the runs are replaced.
slugifyTrimFirst(input) ==
    ReplaceNonAlnumRuns(TrimHyphens(ToLowerCase(StripDiacritics(Nfd(input)))))

slugify(input) ==
    TrimHyphens(ReplaceNonAlnumRuns(ToLowerCase(StripDiacritics(Nfd(input)))))

-----------------------------------------------------------------------------
(* Numbers: exact rationals <<numerator, denominator>> in lowest terms,    *)
(* denominator > 0                                                         *)

Abs(n) == IF n < 0 THEN 0 - n ELSE n

RECURSIVE Gcd(_, _)
Gcd(a, b) == IF b = 0 THEN a ELSE Gcd(b, a % b)

Rat(n, d) == LET g == Gcd(Abs(n), d) IN <<n \div g, d \div g>>
Zero == <<0, 1>>
One == <<1, 1>>
RLe(a, b) == a[1] * b[2] <= b[1] * a[2]
RLt(a, b) == a[1] * b[2] < b[1] * a[2]
REq(a, b) == a[1] * b[2] = b[1] * a[2]
RAdd(a, b) == Rat(a[1] * b[2] + b[1] * a[2], a[2] * b[2])
RMul(a, b) == Rat(a[1] * b[1], a[2] * b[2])
\* Math.max, Math.min
RMax(a, b) == IF RLe(a, b) THEN b ELSE a
RMin(a, b) == IF RLe(a, b) THEN a ELSE b

\* Values of JavaScript that are not text, numbers or objects
\* (one-element sequences of a token that is no character, and a pair that
\* is no rational, so that they compare with texts and numbers)
Undefined == <<"undefined">>
Null == <<"null">>
NaN == <<0, 0>>

-----------------------------------------------------------------------------
(* shared.ts: clamp, parseNumber, sanitizeList, toAvailabilityFraction,    *)
(* createProjectKey                                                        *)

\* A clamp that forgets the upper limit.
clampLowOnly(value, min, max) == RMax(min, value)

clamp(value, min, max) == RMin(max, RMax(min, value))

RECURSIVE TakeDigits(_)
\* The longest prefix of s made of decimal digits.
TakeDigits(s) ==
    IF s # <<>> /\ Head(s) \in DigitChars THEN <<Head(s)>> \o TakeDigits(Tail(s)) ELSE <<>>

DigitSeq == <<"0", "1", "2", "3", "4", "5", "6", "7", "8", "9">>
DigitValue(c) == (CHOOSE i \in 1..10 : DigitSeq[i] = c) - 1

RECURSIVE DigitsToNat(_, _)
DigitsToNat(s, acc) ==
    IF s = <<>> THEN acc ELSE DigitsToNat(Tail(s), acc * 10 + DigitValue(Head(s)))

RECURSIVE Pow10(_)
Pow10(n) == IF n = 0 THEN 1 ELSE 10 * Pow10(n - 1)

\* Number.parseFloat: leading blanks, a sign, digits, a point, digits; what
\* follows is ignored; NaN when no digit was read.  (The texts of the model
\* hold no exponent and no "Infinity".)
ParseFloat(s) ==
    LET t == TrimLeft(s, WhiteSpace)
        signed == t # <<>> /\ Head(t) \in {"-", "+"}
        neg == t # <<>> /\ Head(t) = "-"
        u == IF signed THEN Tail(t) ELSE t
        ip == TakeDigits(u)
        rest == SubSeq(u, Len(ip) + 1, Len(u))
        hasDot == rest # <<>> /\ Head(rest) = "."
        fp == IF hasDot THEN TakeDigits(Tail(rest)) ELSE <<>>
        n == DigitsToNat(ip \o fp, 0)
    IN  IF ip = <<>> /\ fp = <<>> THEN NaN
        ELSE Rat(IF neg THEN 0 - n ELSE n, Pow10(Len(fp)))

RECURSIVE ReplaceFirst(_, _, _)
\* String.prototype.replace(from, to) with a string pattern: first occurrence.
ReplaceFirst(s, from, to) ==
    IF s = <<>> THEN <<>>
    ELSE IF Head(s) = from THEN <<to>> \o Tail(s)
    ELSE <<Head(s)>> \o ReplaceFirst(Tail(s), from, to)

parseNumber(input) ==
    IF input = Undefined \/ input = <<>> THEN Zero
    ELSE LET normalized ==
                 ReplaceFirst(FilterSeq(LAMBDA c : c # ".", input), ",", ".")
             value == ParseFloat(normalized)
         IN  IF value # NaN THEN value ELSE Zero

sanitizeList(input, delimiter) ==
    IF input = Undefined \/ input = <<>> THEN <<>>
    ELSE FilterSeq(LAMBDA item : item # <<>>, MapSeq(Trim, Split(input, delimiter)))

REFERENCE_HOURS == 160

toAvailabilityFraction(hours, base) ==
    IF base <= 0 THEN Zero
    ELSE clamp(RMul(hours, Rat(1, base)), Zero, One)

createProjectKey(sigla, titulo) ==
    (IF sigla = Undefined THEN <<>> ELSE ToUpperCase(Trim(sigla)))
        \o <<":", ":">> \o
    (IF titulo = Undefined THEN <<>> ELSE ToUpperCase(Trim(titulo)))

-----------------------------------------------------------------------------
(* Array.prototype.sort((a, b) => b.score - a.score): stable, descending *)

RECURSIVE InsertByScore(_, _)
\* rec goes before the first element whose score is strictly lower.
InsertByScore(sorted, rec) ==
    IF sorted = <<>> THEN <<rec>>
    ELSE IF RLt(Head(sorted).score, rec.score) THEN <<rec>> \o sorted
    ELSE <<Head(sorted)>> \o InsertByScore(Tail(sorted), rec)

RECURSIVE SortFrom(_, _)
SortFrom(sorted, rest) ==
    IF rest = <<>> THEN sorted
    ELSE SortFrom(InsertByScore(sorted, Head(rest)), Tail(rest))

\* A sort left out: the list stays in enumeration order.
sortByScoreDescNone(list) == list

sortByScoreDesc(list) == SortFrom(<<>>, list)

-----------------------------------------------------------------------------
(* core.ts: buildRecommendations(resources, projects)                      *)
(*                                                                         *)
(* A Skill is [id, name], a Resource [id, macroArea, availability, skills],*)
(* a ProjectNeed [skillId, label], a Project [id, macroArea, needs]: the   *)
(* fields the builders read.  A Recommendation keeps the fields the        *)
(* builders compute.  One evaluation of a (project, resource) pair yields  *)
(* [emit, rec, divs]: whether a Recommendation is returned, which, and the *)
(* denominators of the divisions it evaluated.                             *)

weights ==
    [skillCoverage |-> Rat(5, 10), availability |-> Rat(3, 10), coordination |-> Rat(2, 10)]

\* new Map(needs.map(need => [need.skillId, need])).get(id): the last need
\* entered under the key
MapHas(needs, id) == \E i \in 1..Len(needs) : needs[i].skillId = id
MapGet(needs, id) ==
    needs[CHOOSE i \in 1..Len(needs) :
              /\ needs[i].skillId = id
              /\ \A j \in (i + 1)..Len(needs) : needs[j].skillId # id]

\* resource.skills.map(skill => projectNeeds.get(skill.id)).filter(Boolean)
MatchedNeeds(resource, project) ==
    MapSeq(LAMBDA skill : MapGet(project.needs, skill.id),
           FilterSeq(LAMBDA skill : MapHas(project.needs, skill.id), resource.skills))

\* the division with its guard left out
UnguardedCoverage(matched, needsLen) ==
    [value |-> Rat(matched, IF needsLen = 0 THEN 1 ELSE needsLen), divs |-> {needsLen}]

\* matched / needs.length behind its guard
GuardedCoverage(matched, needsLen) ==
    IF needsLen # 0 THEN [value |-> Rat(matched, needsLen), divs |-> {needsLen}]
    ELSE [value |-> Zero, divs |-> {}]

CoordinationScore(resourceArea, projectArea) ==
    IF ToLowerCase(Trim(resourceArea)) = ToLowerCase(Trim(projectArea)) THEN One ELSE Zero

WeightedScore(w, skillCoverage, availabilityScore, coordinationScore) ==
    RAdd(RAdd(RMul(skillCoverage, w.skillCoverage),
              RMul(availabilityScore, w.availability)),
         RMul(coordinationScore, w.coordination))

NoRec == [emit |-> FALSE, rec |-> <<>>, divs |-> {}]

\* core.ts line 19: the pairings that yield no Recommendation
CoreExcluded(matchedNeeds, resource) ==
    Len(matchedNeeds) = 0 \/ RLe(resource.availability, Zero)

\* core.ts lines 13-49: the body of resources.map
CorePair(project, resource) ==
    LET matchedNeeds == MatchedNeeds(resource, project)
    IN  IF CoreExcluded(matchedNeeds, resource) THEN NoRec
        ELSE LET cov == GuardedCoverage(Len(matchedNeeds), Len(project.needs))
                 availabilityScore == clamp(resource.availability, Zero, One)
                 coordinationScore == CoordinationScore(resource.macroArea, project.macroArea)
                 score == WeightedScore(weights, cov.value, availabilityScore, coordinationScore)
             IN  [emit |-> TRUE,
                  rec |-> [projectId |-> project.id,
                           macroArea |-> project.macroArea,
                           resourceId |-> resource.id,
                           matchedSkills |-> MapSeq(LAMBDA need : need.label, matchedNeeds),
                           coordinationFit |-> coordinationScore = One,
                           score |-> clamp(score, Zero, One),
                           matchDetail |-> [skillCoverage |-> cov.value,
                                            availabilityScore |-> availabilityScore,
                                            coordinationScore |-> coordinationScore]],
                  divs |-> cov.divs]

\* projects.flatMap(project => resources.map(resource => ...)): project-major
CorePairs(resources, projects) ==
    Concat(MapSeq(LAMBDA project :
                      MapSeq(LAMBDA resource : CorePair(project, resource), resources),
                  projects))

Emitted(pairs) == MapSeq(LAMBDA pair : pair.rec, FilterSeq(LAMBDA pair : pair.emit, pairs))
DivisorsOf(pairs) == UNION {pairs[i].divs : i \in 1..Len(pairs)}

\* core.ts buildRecommendations: [list, divs]
buildRecommendations(resources, projects) ==
    LET pairs == CorePairs(resources, projects)
    IN  [list |-> sortByScoreDesc(Emitted(pairs)), divs |-> DivisorsOf(pairs)]

-----------------------------------------------------------------------------
(* index.ts: uniqueSkills, buildResource, buildProject, buildRecommendation,*)
(* loadMockData.  A CSV record is a record of texts, one per column read.  *)

RECURSIVE UniqueFrom(_, _)
\* uniqueSkills: the first skill of each id, in order of first occurrence
UniqueFrom(kept, rest) ==
    IF rest = <<>> THEN kept
    ELSE IF \E i \in 1..Len(kept) : kept[i].id = Head(rest).id
         THEN UniqueFrom(kept, Tail(rest))
         ELSE UniqueFrom(Append(kept, Head(rest)), Tail(rest))

uniqueSkills(skills) == UniqueFrom(<<>>, skills)

\* x || fallback, for texts
OrElse(x, fallback) == IF x = Undefined \/ x = <<>> THEN fallback ELSE x

OUTROS == <<"O", "u", "t", "r", "o", "s">>

buildResource(record) ==
    LET availabilityHours == parseNumber(record.CargaDisponivelHoras)
        availability == toAvailabilityFraction(availabilityHours, REFERENCE_HOURS)
        macroArea == OrElse(record.MacroAreaEspecialidade, OUTROS)
        toSkill(name) == [id |-> slugify(name), name |-> name]
        competencies == MapSeq(toSkill, sanitizeList(record.CompetenciasChave, "|"))
        technologies == MapSeq(toSkill, sanitizeList(record.TecnologiasPreferenciais, "|"))
    IN  [id |-> record.FuncionarioID,
         macroArea |-> macroArea,
         availabilityHours |-> availabilityHours,
         availability |-> availability,
         skills |-> uniqueSkills(competencies \o technologies)]

buildProject(record) ==
    LET macroArea == OrElse(record.MacroAreaNegocio, OUTROS)
        needs == MapSeq(LAMBDA label : [skillId |-> slugify(label), label |-> label],
                        sanitizeList(record.PerfisHumanosIndicados, "|"))
    IN  [id |-> slugify(OrElse(record.SiglaSistema, <<>>) \o <<"-">>
                        \o OrElse(OrElse(record.TituloDemanda, record.NomeSistema), <<>>)),
         macroArea |-> macroArea,
         needs |-> needs]

\* new Map(entries).get(key) over a list of [key, value]: the last entry wins
LookupHas(entries, key) == \E i \in 1..Len(entries) : entries[i].key = key
LookupGet(entries, key) ==
    entries[CHOOSE i \in 1..Len(entries) :
                /\ entries[i].key = key
                /\ \A j \in (i + 1)..Len(entries) : entries[j].key # key].value

\* rawId.replace(/\s+/g, "")
RemoveWhiteSpace(s) == FilterSeq(LAMBDA c : c \notin WhiteSpace, s)

\* index.ts lines 142-146: the score of a row
RowScore(score, skillCoverage, availabilityScore, coordinationScore) ==
    IF RLt(Zero, score) THEN clamp(score, Zero, One)
    ELSE clamp(WeightedScore(weights, skillCoverage, availabilityScore, coordinationScore),
               Zero, One)

\* index.ts lines 117-154: the Recommendation of one indicated resource id
RowPair(score, project, resource) ==
    LET matchedNeeds == MatchedNeeds(resource, project)
        cov == GuardedCoverage(Len(matchedNeeds), Len(project.needs))
        availabilityScore == clamp(resource.availability, Zero, One)
        coordinationScore == CoordinationScore(resource.macroArea, project.macroArea)
    IN  [emit |-> TRUE,
         rec |-> [projectId |-> project.id,
                  macroArea |-> project.macroArea,
                  resourceId |-> resource.id,
                  matchedSkills |-> MapSeq(LAMBDA need : need.label, matchedNeeds),
                  coordinationFit |-> coordinationScore = One,
                  score |-> RowScore(score, cov.value, availabilityScore, coordinationScore),
                  matchDetail |-> [skillCoverage |-> cov.value,
                                   availabilityScore |-> availabilityScore,
                                   coordinationScore |-> coordinationScore]],
         divs |-> cov.divs]

\* buildRecommendation(record, projectLookup, resourceLookup): the pairs of
\* one affinity row
buildRecommendation(record, projectLookup, resourceLookup) ==
    LET projectKey == createProjectKey(record.SiglaSistema, record.TituloDemanda)
    IN  IF ~LookupHas(projectLookup, projectKey) THEN <<>>
        ELSE LET project == LookupGet(projectLookup, projectKey)
                 score == parseNumber(record.ScoreAfinidade)
                 ids == MapSeq(RemoveWhiteSpace,
                               sanitizeList(record.FuncionariosIndicadosIDs, "|"))
                 known == FilterSeq(LAMBDA id : LookupHas(resourceLookup, id), ids)
             IN  MapSeq(LAMBDA id : RowPair(score, project, LookupGet(resourceLookup, id)),
                        known)

\* index.ts line 161: (record.SiglaSistema || "").toUpperCase().startsWith("PA")
IsPaRecord(record) ==
    LET sigla == ToUpperCase(OrElse(record.SiglaSistema, <<>>))
    IN  Len(sigla) >= 2 /\ SubSeq(sigla, 1, 2) = <<"P", "A">>

\* index.ts lines 174-181: the lookups of loadMockData
ResourceLookup(resources) ==
    MapSeq(LAMBDA resource : [key |-> resource.id, value |-> resource], resources)
ProjectLookup(projectRecords, projects) ==
    [i \in 1..Len(projectRecords) |->
        [key |-> createProjectKey(projectRecords[i].SiglaSistema,
                                  projectRecords[i].TituloDemanda),
         value |-> projects[i]]]

-----------------------------------------------------------------------------
(* dataset.ts: normalizeLabel and the API's buildRecommendations.  A       *)
(* ResourceProfile is [id, macroArea, availability, skills] with macroArea *)
(* and availability possibly null; a ProjectProfile [id, macroArea, needs] *)
(* with macroArea possibly undefined.                                      *)

normalizeLabel(input) ==
    IF input = Undefined \/ input = Null THEN <<>> ELSE ToLowerCase(Trim(input))

\* resource.skills.filter(skill => normalizedNeeds.some(...))
ApiMatchedSkills(resource, project) ==
    FilterSeq(LAMBDA skill :
                  \E i \in 1..Len(project.needs) :
                      normalizeLabel(project.needs[i].label) = normalizeLabel(skill.name),
              resource.skills)

\* dataset.ts lines 256-259
ApiAvailabilityScore(availability) ==
    IF availability # Null /\ availability # Undefined /\ availability # NaN
    THEN RMax(Zero, RMin(One, availability))
    ELSE Zero

\* a truthy text: neither null, undefined nor empty
Truthy(text) == text # Null /\ text # Undefined /\ text # <<>>

\* dataset.ts lines 260-265
ApiCoordinationScore(resourceArea, projectArea) ==
    IF /\ Truthy(resourceArea)
       /\ Truthy(projectArea)
       /\ normalizeLabel(resourceArea) = normalizeLabel(projectArea)
    THEN One ELSE Zero

\* dataset.ts line 268: the weights written into the formula
apiWeights ==
    [skillCoverage |-> Rat(7, 10), availability |-> Rat(2, 10), coordination |-> Rat(1, 10)]

\* dataset.ts lines 241-287: the body of the inner loop
ApiPair(project, resource) ==
    IF Len(resource.skills) = 0 THEN NoRec
    ELSE LET matchedSkills == ApiMatchedSkills(resource, project)
         IN  IF Len(matchedSkills) = 0 THEN NoRec
             ELSE LET cov == GuardedCoverage(Len(matchedSkills), Len(project.needs))
                      availabilityScore == ApiAvailabilityScore(resource.availability)
                      coordinationScore ==
                          ApiCoordinationScore(resource.macroArea, project.macroArea)
                      score == RMax(RMin(WeightedScore(apiWeights, cov.value,
                                                       availabilityScore, coordinationScore),
                                         One),
                                    Zero)
                  IN  [emit |-> TRUE,
                       rec |-> [projectId |-> project.id,
                                macroArea |-> project.macroArea,
                                resourceId |-> resource.id,
                                matchedSkills |->
                                    MapSeq(LAMBDA skill : skill.name, matchedSkills),
                                coordinationFit |-> coordinationScore = One,
                                score |-> score,
                                matchDetail |-> [skillCoverage |-> cov.value,
                                                 availabilityScore |-> availabilityScore,
                                                 coordinationScore |-> coordinationScore]],
                       divs |-> cov.divs]

\* dataset.ts lines 232-289: projects without needs are skipped
ApiPairs(resources, projects) ==
    Concat(MapSeq(LAMBDA project :
                      IF Len(project.needs) = 0 THEN <<>>
                      ELSE MapSeq(LAMBDA resource : ApiPair(project, resource), resources),
                  projects))

\* dataset.ts buildRecommendations: [list, divs]
apiBuildRecommendations(resources, projects) ==
    LET pairs == ApiPairs(resources, projects)
    IN  [list |-> sortByScoreDesc(Emitted(pairs)), divs |-> DivisorsOf(pairs)]

-----------------------------------------------------------------------------
(* insights-store.ts: the file insights_store.json                         *)
(*                                                                         *)
(* A StoredInsightRecord is a function from field names to values; a field *)
(* may be missing, or hold undefined.  The file is absent, holds text that *)
(* JSON.parse rejects or that is no array ("corrupt"), or holds an array.  *)

undefinedField == "undefined"
RecordFields == {"resourceId", "summary", "usingAzure", "model"}
\* the fields declared optional (model?: string), which may hold undefined
OptionalFields == {"model", "latencyMs", "rawAzureResponse"}

\* record.field, undefined when the record has no such field
Get(record, f) == IF f \in DOMAIN record THEN record[f] ELSE undefinedField

Absent == [kind |-> "absent", records |-> <<>>]
Corrupt == [kind |-> "corrupt", records |-> <<>>]
ArrayOf(records) == [kind |-> "array", records |-> records]

\* JSON.parse(JSON.stringify(record)): fields holding undefined are dropped
JsonRoundTrip(record) ==
    [f \in {g \in DOMAIN record : ~(g \in OptionalFields /\ record[g] = undefinedField)} |->
        record[f]]

\* ensureStoreFile: an absent file is created holding "[]"
ensureStoreFile(content) == IF content.kind = "absent" THEN ArrayOf(<<>>) ELSE content

\* loadStoredInsights: [content, value]; a failed read and text that is no
\* JSON array both yield []
loadStoredInsights(content, readFails) ==
    LET ensured == ensureStoreFile(content)
    IN  [content |-> ensured,
         value |-> IF readFails \/ ensured.kind # "array" THEN <<>> ELSE ensured.records]

\* A map.set that appends without looking for the key.
MapSetAppend(map, record) == Append(map, record)

\* A map.set that overlays the new fields on the stored record.
MapSetMerge(map, record) ==
    IF \E i \in 1..Len(map) : map[i].resourceId = record.resourceId
    THEN LET i == CHOOSE j \in 1..Len(map) : map[j].resourceId = record.resourceId
         IN  [map EXCEPT ![i] =
                 [f \in DOMAIN map[i] \cup DOMAIN record |->
                     IF f \in DOMAIN record THEN record[f] ELSE map[i][f]]]
    ELSE Append(map, record)

\* map.set(record.resourceId, record) on a Map kept as the list of its
\* values in insertion order: a stored key keeps its place
MapSet(map, record) ==
    IF \E i \in 1..Len(map) : map[i].resourceId = record.resourceId
    THEN LET i == CHOOSE j \in 1..Len(map) : map[j].resourceId = record.resourceId
         IN  [map EXCEPT ![i] = record]
    ELSE Append(map, record)

\* A forEach that forgets the map it was given.
MapSetAllFresh(map, records) == records

RECURSIVE MapSetAll(_, _)
\* records.forEach(record => map.set(record.resourceId, record))
MapSetAll(map, records) ==
    IF records = <<>> THEN map
    ELSE MapSetAll(MapSet(map, Head(records)), Tail(records))

\* upsertStoredInsights(records): [content, outcome].  torn says whether a
\* failed write left the file truncated.
upsertStoredInsights(content, records, readFails, writeFails, torn) ==
    IF Len(records) = 0 THEN [content |-> content, outcome |-> "returned"]
    ELSE LET loaded == loadStoredInsights(content, readFails)
             map == MapSetAll(MapSetAll(<<>>, loaded.value), records)
         IN  IF writeFails
             THEN [content |-> IF torn THEN Corrupt ELSE loaded.content, outcome |-> "threw"]
             ELSE [content |-> ArrayOf(MapSeq(JsonRoundTrip, map)), outcome |-> "returned"]

-----------------------------------------------------------------------------
(* Specification SpecSlug: a text is slugified, and the slug slugified     *)
(* again                                                                   *)

SlugChars == {"a", "B", "0", "a_acute", "A_tilde", "comb_acute", "circumflex", " ", "-"}
SlugInputs == SeqsUpTo(SlugChars, MaxSlugLen)

IdleSlug == slugCall = "none" /\ slugOrig = <<>> /\ slugIn = <<>> /\ slugOut = <<>>
IdleMatch ==
    /\ call = "none" /\ inResources = <<>> /\ inProjects = <<>> /\ inRows = <<>>
    /\ rowOut = <<>> /\ recs = <<>> /\ divisors = {}
IdleStore ==
    /\ store = Absent /\ prevStore = Absent /\ sameAgain = FALSE
    /\ lastOp = [op |-> "none", records |-> <<>>, readOk |-> TRUE,
                 outcome |-> "returned", value |-> <<>>]
NoPayload == [resources |-> <<>>, projects |-> <<>>, recommendations |-> <<>>]
NoGen == [branch |-> "none"]
IdleInsight == payload = NoPayload /\ profiles = <<>> /\ gen = NoGen
NoRace == [pc |-> <<>>]
NoLoad == [entry |-> "none"]
NoBatch == [pc |-> "none"]
IdleRace == race = NoRace
IdleLoad == loader = NoLoad
IdleWeb == batch = NoBatch

SlugFirst ==
    /\ slugCall = "none"
    /\ \E x \in SlugInputs :
           /\ slugOrig' = x
           /\ slugIn' = x
           /\ slugOut' = slugify(x)
    /\ slugCall' = "first"
    /\ UNCHANGED <<matchVars, storeVars, insightVars, raceVars, loadVars, webVars>>

SlugAgain ==
    /\ slugCall = "first"
    /\ slugIn' = slugOut
    /\ slugOut' = slugify(slugOut)
    /\ slugCall' = "again"
    /\ UNCHANGED <<slugOrig, matchVars, storeVars, insightVars, raceVars, loadVars, webVars>>

InitSlug == IdleSlug /\ IdleMatch /\ IdleStore /\ IdleInsight /\ IdleRace /\ IdleLoad /\ IdleWeb
NextSlug == SlugFirst \/ SlugAgain
SpecSlug == InitSlug /\ [][NextSlug]_vars

-----------------------------------------------------------------------------
(* Specification SpecMatch: one call of a recommendation builder           *)

R1 == <<"r", "1">>
R2 == <<"r", "2">>
P1 == <<"p", "1">>
P2 == <<"p", "2">>

\* Skills and needs handed to the exported builders.  A skill name and a
\* need label may differ in case only; lists may repeat an entry.
SkillPool == {[id |-> slugify(n), name |-> n] : n \in {<<"A">>, <<"b">>}}
NeedPool == {[skillId |-> slugify(l), label |-> l] : l \in {<<"a">>, <<"b">>}}
SkillLists == SeqsUpTo(SkillPool, MaxSkills)
NeedLists == SeqsUpTo(NeedPool, MaxNeeds)

SkillA == [id |-> <<"a">>, name |-> <<"a">>]
SkillB == [id |-> <<"b">>, name |-> <<"b">>]
NeedA == [skillId |-> <<"a">>, label |-> <<"a">>]
NeedB == [skillId |-> <<"b">>, label |-> <<"b">>]

\* core.ts: Resource.availability is any number
CoreAvailabilities == {Rat(0 - 1, 2), Zero, Rat(2, 5), Rat(3, 2)}
CoreResourceLists ==
    LET firsts == {[id |-> R1, macroArea |-> <<"I">>, availability |-> a, skills |-> sk] :
                       a \in CoreAvailabilities, sk \in SkillLists}
        seconds == {[id |-> R2, macroArea |-> <<"x">>, availability |-> One,
                     skills |-> <<SkillB>>],
                    [id |-> R2, macroArea |-> <<"i", " ">>, availability |-> Rat(2, 5),
                     skills |-> <<SkillA, SkillB>>]}
    IN  {<<r>> : r \in firsts} \cup {<<r, q>> : r \in firsts, q \in seconds}
CoreProjectLists ==
    LET firsts == {[id |-> P1, macroArea |-> m, needs |-> nd] :
                       m \in {<<" ", "i">>, <<"x">>}, nd \in NeedLists}
        second == [id |-> P2, macroArea |-> <<"x">>, needs |-> <<NeedB, NeedA>>]
    IN  {<<q>> : q \in firsts} \cup {<<second, q>> : q \in firsts}

\* dataset.ts: availability and macroArea may be null, macroArea of a
\* project undefined
ApiAvailabilities == {Null, Rat(0 - 1, 2), Rat(2, 5), Rat(3, 2)}
ApiResourceLists ==
    LET firsts == {[id |-> R1, macroArea |-> <<"I">>, availability |-> a, skills |-> sk] :
                       a \in ApiAvailabilities, sk \in SkillLists}
        seconds == {[id |-> R2, macroArea |-> Null, availability |-> Null,
                     skills |-> <<SkillB>>],
                    [id |-> R2, macroArea |-> <<"i", " ">>, availability |-> Rat(2, 5),
                     skills |-> <<SkillA, SkillB>>]}
    IN  {<<r>> : r \in firsts} \cup {<<r, q>> : r \in firsts, q \in seconds}
ApiProjectLists ==
    LET firsts == {[id |-> P1, macroArea |-> m, needs |-> nd] :
                       m \in {<<" ", "i">>, Undefined}, nd \in NeedLists}
        second == [id |-> P2, macroArea |-> <<"x">>, needs |-> <<NeedB, NeedA>>]
    IN  {<<q>> : q \in firsts} \cup {<<second, q>> : q \in firsts}

\* Records of mock_funcionarios.csv
ResourceRecordLists ==
    {<<[FuncionarioID |-> R1,
        CargaDisponivelHoras |-> hours,
        MacroAreaEspecialidade |-> <<"I">>,
        CompetenciasChave |-> comp,
        TecnologiasPreferenciais |-> <<"a">>],
       [FuncionarioID |-> R2,
        CargaDisponivelHoras |-> <<"1", "6", "0">>,
        MacroAreaEspecialidade |-> <<>>,
        CompetenciasChave |-> <<"a", "|", " ", "b">>,
        TecnologiasPreferenciais |-> <<>>]>> :
        hours \in {<<"6", "4">>, <<>>, <<"1", ".", "6", "0", "0">>},
        comp \in {<<"A", "|", "a">>, <<"b">>}}

\* Records of ExportacaoDemanda.csv
ProjectRecordLists ==
    {<<[SiglaSistema |-> <<"S">>,
        TituloDemanda |-> <<"t">>,
        NomeSistema |-> <<>>,
        MacroAreaNegocio |-> <<"i">>,
        PerfisHumanosIndicados |-> perfis],
       second>> :
        perfis \in {<<"a", "|", "b">>, <<>>, <<"b">>},
        second \in {[SiglaSistema |-> <<"p", "a", "x">>,
                     TituloDemanda |-> <<"t">>,
                     NomeSistema |-> <<>>,
                     MacroAreaNegocio |-> <<>>,
                     PerfisHumanosIndicados |-> <<"a">>],
                    [SiglaSistema |-> <<"Q">>,
                     TituloDemanda |-> <<>>,
                     NomeSistema |-> <<"n">>,
                     MacroAreaNegocio |-> <<"x">>,
                     PerfisHumanosIndicados |-> <<"a">>]}}

\* The ScoreAfinidade column of mock_afinidade_projetos.csv.  The file is
\* split on "," (index.ts line 168), so a field holds no comma; parseCsv
\* trims every field.
ScoreTexts ==
    {Undefined, <<>>, <<"0", ".", "8", "2">>, <<"0">>, <<"-", "1">>, <<"1", ".", "5">>}
RowPool ==
    {[SiglaSistema |-> <<"s">>,
      TituloDemanda |-> <<"T">>,
      ScoreAfinidade |-> sc,
      FuncionariosIndicadosIDs |-> R1] : sc \in ScoreTexts}
    \cup {[SiglaSistema |-> <<"S">>,
           TituloDemanda |-> <<"t">>,
           ScoreAfinidade |-> <<"0", ".", "8", "2">>,
           FuncionariosIndicadosIDs |-> <<"r", "2", "|", " ", "r", " ", "1", "|", "z">>],
          [SiglaSistema |-> <<"z">>,
           TituloDemanda |-> <<"t">>,
           ScoreAfinidade |-> <<"1">>,
           FuncionariosIndicadosIDs |-> R1]}
RowLists == SeqsUpTo(RowPool, MaxRows)

RunCore ==
    /\ call = "none"
    /\ \E rs \in CoreResourceLists, ps \in CoreProjectLists :
           LET out == buildRecommendations(rs, ps)
           IN  /\ inResources' = rs
               /\ inProjects' = ps
               /\ recs' = out.list
               /\ divisors' = out.divs
    /\ call' = "core"
    /\ UNCHANGED <<inRows, rowOut, slugVars, storeVars, insightVars, raceVars, loadVars, webVars>>

RunApi ==
    /\ call = "none"
    /\ \E rs \in ApiResourceLists, ps \in ApiProjectLists :
           LET out == apiBuildRecommendations(rs, ps)
           IN  /\ inResources' = rs
               /\ inProjects' = ps
               /\ recs' = out.list
               /\ divisors' = out.divs
    /\ call' = "api"
    /\ UNCHANGED <<inRows, rowOut, slugVars, storeVars, insightVars, raceVars, loadVars, webVars>>

\* loadMockData, from the parsed records of the three CSV files.  Each
\* \E binds one local of the function to its value.
RunLoad ==
    /\ call = "none"
    /\ \E rr \in ResourceRecordLists, allpr \in ProjectRecordLists, rows \in RowLists :
         \E pr \in {FilterSeq(LAMBDA record : ~IsPaRecord(record), allpr)} :
         \E resources \in {MapSeq(buildResource, rr)} :
         \E projects \in {MapSeq(buildProject, pr)} :
         \E resourceLookup \in {ResourceLookup(resources)} :
         \E projectLookup \in {ProjectLookup(pr, projects)} :
         \E perRow \in {MapSeq(LAMBDA record :
                                   buildRecommendation(record, projectLookup, resourceLookup),
                               rows)} :
         \E recommendations \in {sortByScoreDesc(Emitted(Concat(perRow)))} :
         \E fallback \in {IF Len(recommendations) # 0 THEN [list |-> <<>>, divs |-> {}]
                           ELSE buildRecommendations(resources, projects)} :
             /\ inResources' = resources
             /\ inProjects' = projects
             /\ inRows' = rows
             /\ rowOut' = MapSeq(Emitted, perRow)
             /\ recs' = IF Len(recommendations) # 0 THEN recommendations ELSE fallback.list
             /\ divisors' = DivisorsOf(Concat(perRow)) \cup fallback.divs
    /\ call' = "load"
    /\ UNCHANGED <<slugVars, storeVars, insightVars, raceVars, loadVars, webVars>>

InitMatch == IdleSlug /\ IdleMatch /\ IdleStore /\ IdleInsight /\ IdleRace /\ IdleLoad /\ IdleWeb
NextMatch == RunCore \/ RunApi \/ RunLoad
SpecMatch == InitMatch /\ [][NextMatch]_vars

-----------------------------------------------------------------------------
(* Specification Spec: sequential calls on the insight store               *)

RecordPool ==
    {[resourceId |-> "r1", summary |-> "sumA", usingAzure |-> FALSE],
     [resourceId |-> "r1", summary |-> "sumB", usingAzure |-> TRUE, model |-> "gpt-5-mini"],
     [resourceId |-> "r1", summary |-> "sumA", usingAzure |-> FALSE,
      model |-> undefinedField],
     [resourceId |-> "r2", summary |-> "sumA", usingAzure |-> FALSE],
     [resourceId |-> "r2", summary |-> "sumB", usingAzure |-> TRUE, model |-> "gpt-5-mini"]}
Batches == SeqsUpTo(RecordPool, MaxBatch)

\* What the file may hold when the process starts: nothing, text that is no
\* JSON array, an empty array, arrays written earlier or edited by hand.
InitialStores ==
    {Absent, Corrupt, ArrayOf(<<>>),
     ArrayOf(<<[resourceId |-> "r1", summary |-> "sumB", usingAzure |-> TRUE,
                model |-> "gpt-5-mini"],
               [resourceId |-> "r2", summary |-> "sumA", usingAzure |-> FALSE]>>),
     ArrayOf(<<[resourceId |-> "r1", summary |-> "sumA", usingAzure |-> FALSE],
               [resourceId |-> "r1", summary |-> "sumB", usingAzure |-> TRUE,
                model |-> "gpt-5-mini"]>>)}

\* loadStoredInsights()
Load ==
    \E readFails \in BOOLEAN :
        LET out == loadStoredInsights(store, readFails)
        IN  /\ store' = out.content
            /\ prevStore' = store
            /\ lastOp' = [op |-> "load", records |-> <<>>, readOk |-> ~readFails,
                          outcome |-> "returned", value |-> out.value]
            /\ sameAgain' = FALSE
            /\ UNCHANGED <<slugVars, matchVars, insightVars, raceVars, loadVars, webVars>>

\* upsertStoredInsights(records)
Upsert ==
    \E records \in Batches, readFails \in BOOLEAN, writeFails \in BOOLEAN, torn \in BOOLEAN :
        LET out == upsertStoredInsights(store, records, readFails, writeFails, torn)
        IN  /\ torn => writeFails
            /\ store' = out.content
            /\ prevStore' = store
            /\ lastOp' = [op |-> "upsert", records |-> records, readOk |-> ~readFails,
                          outcome |-> out.outcome, value |-> <<>>]
            /\ sameAgain' = (/\ lastOp.op = "upsert"
                             /\ lastOp.outcome = "returned"
                             /\ lastOp.records = records
                             /\ out.outcome = "returned")
            /\ UNCHANGED <<slugVars, matchVars, insightVars, raceVars, loadVars, webVars>>

Init ==
    /\ IdleSlug
    /\ IdleMatch
    /\ IdleInsight /\ IdleRace /\ IdleLoad /\ IdleWeb
    /\ store \in InitialStores
    /\ prevStore = store
    /\ sameAgain = FALSE
    /\ lastOp = [op |-> "none", records |-> <<>>, readOk |-> TRUE,
                 outcome |-> "returned", value |-> <<>>]
Next == Load \/ Upsert
Spec == Init /\ [][Next]_vars

-----------------------------------------------------------------------------
(* azure-openai.ts: computeCandidateProfiles(payload)                      *)

\* normalizeLabel of azure-openai.ts: label.trim().toLowerCase()
insightNormalizeLabel(label) == ToLowerCase(Trim(label))

\* array.slice(0, n)
Slice(s, n) == SubSeq(s, 1, IF Len(s) < n THEN Len(s) ELSE n)

MATCHES_PER_RESOURCE == 3
CANDIDATE_LIMIT == 5

RECURSIVE MapById(_, _)
\* new Map(items.map(item => [item.id, item])) as the list of its values in
\* insertion order: a repeated id keeps its place and takes the later value
MapById(map, items) ==
    IF items = <<>> THEN map
    ELSE LET item == Head(items)
         IN  MapById(IF \E i \in 1..Len(map) : map[i].id = item.id
                     THEN [map EXCEPT ![CHOOSE i \in 1..Len(map) : map[i].id = item.id] = item]
                     ELSE Append(map, item),
                     Tail(items))

\* grouped.get(resourceId) ?? []
Grouped(recommendations, resourceId) ==
    FilterSeq(LAMBDA r : r.resourceId = resourceId, recommendations)

\* (projectLookup.get(projectId) ??
\*  projectNameLookup.get(normalizeLabel(projectName ?? "")))?.needs ?? []
ProjectNeeds(projects, recommendation) ==
    LET byId == {i \in 1..Len(projects) : projects[i].id = recommendation.projectId}
        byName == {i \in 1..Len(projects) :
                       insightNormalizeLabel(projects[i].name)
                           = insightNormalizeLabel(recommendation.projectName)}
        Last(S) == CHOOSE i \in S : \A j \in S : j <= i
    IN  IF byId # {} THEN projects[Last(byId)].needs
        ELSE IF byName # {} THEN projects[Last(byName)].needs
        ELSE <<>>

\* needs.map(need => need.label).filter(label => no matched skill has the
\* label's normal form)
MissingSkills(needs, recommendation) ==
    FilterSeq(LAMBDA label :
                  ~\E i \in 1..Len(recommendation.matchedSkills) :
                       insightNormalizeLabel(recommendation.matchedSkills[i])
                           = insightNormalizeLabel(label),
              MapSeq(LAMBDA need : need.label, needs))

RECURSIVE SumScores(_)
\* sorted.reduce((sum, entry) => sum + entry.score, 0)
SumScores(list) ==
    IF list = <<>> THEN Zero ELSE RAdd(Head(list).score, SumScores(Tail(list)))

\* matches.length && sorted.length ? sum / sorted.length : 0
AverageScore(sorted) ==
    IF Len(sorted) # 0
    THEN LET sum == SumScores(sorted) IN Rat(sum[1], sum[2] * Len(sorted))
    ELSE Zero

\* The loop body at one entry of resourceLookup.
ProfileOf(resource, payloadIn) ==
    LET recommendations == Grouped(payloadIn.recommendations, resource.id)
        sorted == Slice(sortByScoreDesc(recommendations), MATCHES_PER_RESOURCE)
    IN  [resource |-> resource,
         matches |-> MapSeq(LAMBDA recommendation :
                                [recommendation |-> recommendation,
                                 missingSkills |->
                                     MissingSkills(ProjectNeeds(payloadIn.projects, recommendation),
                                                   recommendation)],
                            sorted),
         averageScore |-> AverageScore(sorted)]

RECURSIVE InsertByAverage(_, _)
\* profile goes before the first element whose averageScore is strictly lower.
InsertByAverage(sorted, profile) ==
    IF sorted = <<>> THEN <<profile>>
    ELSE IF RLt(Head(sorted).averageScore, profile.averageScore) THEN <<profile>> \o sorted
    ELSE <<Head(sorted)>> \o InsertByAverage(Tail(sorted), profile)

RECURSIVE SortProfilesFrom(_, _)
SortProfilesFrom(sorted, rest) ==
    IF rest = <<>> THEN sorted
    ELSE SortProfilesFrom(InsertByAverage(sorted, Head(rest)), Tail(rest))

\* The ranking left out: profiles stay in the order of the resources.
sortByAverageDescNone(list) == list

\* profiles.sort((a, b) => b.averageScore - a.averageScore): stable
sortByAverageDesc(list) == SortProfilesFrom(<<>>, list)

computeCandidateProfiles(payloadIn) ==
    Slice(sortByAverageDesc(MapSeq(LAMBDA resource : ProfileOf(resource, payloadIn),
                                   MapById(<<>>, payloadIn.resources))),
          CANDIDATE_LIMIT)

-----------------------------------------------------------------------------
(* Specification SpecCandidates: computeCandidateProfiles on a payload     *)

MaxResources == 6
MaxRecs == 4

IdSeq == <<"1", "2", "3", "4", "5", "6", "7", "8">>
InsightResourceOf(id, name) ==
    [id |-> id, name |-> name, macroArea |-> <<"I">>, availability |-> Rat(2, 5),
     skills |-> <<[name |-> <<"a">>]>>, preferredTechs |-> <<>>]
\* resources 1..n in order, and a list that repeats an id
CandidateResourceLists ==
    {[i \in 1..n |-> InsightResourceOf(IdSeq[i], <<"n">>)] : n \in 0..MaxResources}
    \cup {<<InsightResourceOf("1", <<"n">>), InsightResourceOf("6", <<"n">>),
            InsightResourceOf("1", <<"m">>)>>}
InsightProjects ==
    <<[id |-> "p", name |-> <<"P">>,
       needs |-> <<[label |-> <<"a">>, skillId |-> "a"],
                   [label |-> <<"B">>, skillId |-> "b"]>>]>>
InsightRecOf(resourceId, projectId, score) ==
    [resourceId |-> resourceId, projectId |-> projectId, projectName |-> <<"p", " ">>,
     score |-> score, matchedSkills |-> <<<<"A">>>>]
\* recommendations of the first resource, of the sixth, and of a resource
\* the payload does not list
CandidateRecPool ==
    {InsightRecOf("1", "p", Rat(1, 5)), InsightRecOf("1", "q", One),
     InsightRecOf("6", "p", Rat(1, 2)), InsightRecOf("6", "q", One),
     InsightRecOf("9", "p", One)}
CandidatePayloads ==
    {[resources |-> resources, projects |-> InsightProjects,
      recommendations |-> recommendations] :
        resources \in CandidateResourceLists,
        recommendations \in SeqsUpTo(CandidateRecPool, MaxRecs)}

ComputeCandidates ==
    /\ gen = NoGen
    /\ \E payloadIn \in CandidatePayloads :
           /\ payload' = payloadIn
           /\ profiles' = computeCandidateProfiles(payloadIn)
    /\ gen' = [branch |-> "computed"]
    /\ UNCHANGED <<slugVars, matchVars, storeVars, raceVars, loadVars, webVars>>

InitCandidates == IdleSlug /\ IdleMatch /\ IdleStore /\ IdleInsight /\ IdleRace /\ IdleLoad /\ IdleWeb
NextCandidates == ComputeCandidates
SpecCandidates == InitCandidates /\ [][NextCandidates]_vars

-----------------------------------------------------------------------------
(* azure-openai.ts: buildHeuristicSuggestion(profile)                      *)
(* A text is a sequence of tokens; the fixed parts of a template literal   *)
(* are one token each, and an id is a one-token text.                      *)

RECURSIVE Join(_, _)
\* array.join(separator)
Join(list, separator) ==
    IF list = <<>> THEN <<>>
    ELSE IF Len(list) = 1 THEN Head(list)
    ELSE Head(list) \o separator \o Join(Tail(list), separator)

RECURSIVE NatToText(_)
NatToText(n) == IF n < 10 THEN <<DigitSeq[n + 1]>> ELSE NatToText(n \div 10) \o <<DigitSeq[(n % 10) + 1]>>
\* `${Math.round(value * 100)}`: half-way cases round up
RoundPercent(value) ==
    LET scaled == RMul(value, Rat(100, 1))
        rounded == (2 * scaled[1] + scaled[2]) \div (2 * scaled[2])
    IN  IF rounded < 0 THEN <<"-">> \o NatToText(0 - rounded) ELSE NatToText(rounded)

\* addUnique(target, value): the target after the call
\* An addUnique that pushes every value that is not blank.
addEvery(target, value) ==
    IF value = Undefined \/ value = Null \/ value = <<>> THEN target
    ELSE IF Trim(value) = <<>> THEN target
    ELSE Append(target, Trim(value))

addUnique(target, value) ==
    IF value = Undefined \/ value = Null \/ value = <<>> THEN target
    ELSE IF Trim(value) = <<>> THEN target
    ELSE IF \E i \in 1..Len(target) :
                insightNormalizeLabel(target[i]) = insightNormalizeLabel(Trim(value))
         THEN target
    ELSE Append(target, Trim(value))

RECURSIVE AddAllUnique(_, _)
AddAllUnique(target, values) ==
    IF values = <<>> THEN target
    ELSE AddAllUnique(addUnique(target, Head(values)), Tail(values))

\* recommendation.projectName || recommendation.projectId || "Projeto sem nome"
ProjectLabel(recommendation) ==
    IF recommendation.projectName # <<>> THEN recommendation.projectName
    ELSE IF recommendation.projectId # "" THEN <<recommendation.projectId>>
    ELSE <<"Projeto sem nome">>

TopSummary(matches) ==
    IF Len(matches) > 0
    THEN Join(MapSeq(LAMBDA match :
                         ProjectLabel(match.recommendation) \o <<" (">>
                             \o RoundPercent(match.recommendation.score) \o <<"%)">>,
                     matches),
              <<", ">>)
    ELSE <<"avaliar alocacao inicial (sem correspondencias mapeadas)">>

AvailabilityPercent(availability) ==
    IF availability = Undefined \/ availability = Null
    THEN <<"disponibilidade nao mapeada">>
    ELSE RoundPercent(availability) \o <<"%">>

HeuristicSummary(profile) ==
    Join(<< <<"Priorizar ">> \o profile.resource.name \o <<" (">>
                \o (IF profile.resource.macroArea = Undefined
                    THEN <<"macroarea indefinida">> ELSE profile.resource.macroArea)
                \o <<")">>,
            <<"foco em ">> \o TopSummary(profile.matches),
            <<"Disponibilidade ">> \o AvailabilityPercent(profile.resource.availability),
            <<"Score medio ">> \o RoundPercent(profile.averageScore) \o <<"%">> >>,
         <<". ">>) \o <<".">>

Rationale(match) ==
    Join(<< <<"Score ">> \o RoundPercent(match.recommendation.score) \o <<"%">>,
            IF Len(match.recommendation.matchedSkills) # 0
            THEN <<"Skills cobertas: ">> \o Join(match.recommendation.matchedSkills, <<", ">>)
            ELSE <<"Sem skill mapeada">> >>
         \o (IF Len(match.missingSkills) # 0
             THEN << <<"Aprimorar: ">> \o Join(match.missingSkills, <<", ">>) >>
             ELSE <<>>),
         <<" * ">>)

SkillHighlights(profile) ==
    AddAllUnique(
        AddAllUnique(
            AddAllUnique(<<>>, MapSeq(LAMBDA skill : skill.name, profile.resource.skills)),
            profile.resource.preferredTechs),
        Concat(MapSeq(LAMBDA match : match.recommendation.matchedSkills, profile.matches)))

RECURSIVE SkillGapsFrom(_, _, _)
\* the loop over every missing skill of every match
SkillGapsFrom(skillGaps, skillHighlights, missing) ==
    IF missing = <<>> THEN skillGaps
    ELSE LET skill == Head(missing)
             normalized == insightNormalizeLabel(skill)
             alreadyCovered == \E i \in 1..Len(skillHighlights) :
                                   insightNormalizeLabel(skillHighlights[i]) = normalized
             alreadyListed == \E i \in 1..Len(skillGaps) :
                                  insightNormalizeLabel(skillGaps[i]) = normalized
         IN  SkillGapsFrom(IF skill = <<>> \/ normalized = <<>> \/ alreadyCovered \/ alreadyListed
                           THEN skillGaps ELSE addUnique(skillGaps, skill),
                           skillHighlights, Tail(missing))

DevelopmentIdeas(skillGaps) ==
    IF Len(skillGaps) > 0
    THEN << <<"Planejar desenvolvimento em ">> \o Join(skillGaps, <<", ">>) \o <<".">> >>
    ELSE << <<"Mapear competencias complementares e alinhar proxima alocacao com gestor responsavel.">> >>

buildHeuristicSuggestion(profile) ==
    LET skillHighlights == SkillHighlights(profile)
        skillGaps == SkillGapsFrom(<<>>, skillHighlights,
                                   Concat(MapSeq(LAMBDA match : match.missingSkills,
                                                 profile.matches)))
    IN  [resourceId |-> profile.resource.id,
         resourceName |-> profile.resource.name,
         summary |-> HeuristicSummary(profile),
         suggestedProjects |->
             MapSeq(LAMBDA match : [projectId |-> <<match.recommendation.projectId>>,
                                    projectName |-> match.recommendation.projectName,
                                    rationale |-> Rationale(match)],
                    profile.matches),
         developmentIdeas |-> DevelopmentIdeas(skillGaps),
         skillHighlights |-> skillHighlights,
         skillGaps |-> skillGaps]

-----------------------------------------------------------------------------
(* azure-openai.ts: parseInsights(raw), mergeAzureWithHeuristics           *)
(* A JSON value carries its type: [t |-> type, v |-> content].             *)

JUndefined == [t |-> "undefined", v |-> <<>>]
JNull == [t |-> "null", v |-> <<>>]
JStr(text) == [t |-> "string", v |-> text]
JNum(digits) == [t |-> "number", v |-> digits]
JArr(elements) == [t |-> "array", v |-> elements]
JObj(fields) == [t |-> "object", v |-> fields]

\* object.field, undefined when the object has no such field (or is no object
\* that could have one)
Field(j, f) == IF j.t = "object" /\ f \in DOMAIN j.v THEN j.v[f] ELSE JUndefined
Nullish(j) == j.t \in {"undefined", "null"}
\* String(value)
StringOf(j) ==
    CASE j.t \in {"string", "number"} -> j.v
      [] j.t = "null" -> <<"n", "u", "l", "l">>
      [] j.t = "undefined" -> <<"u", "n", "d", "e", "f", "i", "n", "e", "d">>
      [] OTHER -> <<"[object Object]">>
\* The value as an insight field holds it: a string is its text, a number
\* stays a number.
Held(j) == IF j.t = "string" THEN j.v ELSE <<"number:">> \o j.v
\* an id is a one-token text
IdOf(text) == IF text = <<>> THEN "" ELSE text[1]

\* parseInsights(raw): the array, or null.  A completion is empty, is text
\* that is no JSON, or is the text of a JSON value.
parseInsights(completion) ==
    IF completion.kind # "json" THEN [ok |-> FALSE, entries |-> <<>>]
    ELSE IF completion.value.t = "array" THEN [ok |-> TRUE, entries |-> completion.value.v]
    ELSE IF Field(completion.value, "insights").t = "array"
    THEN [ok |-> TRUE, entries |-> Field(completion.value, "insights").v]
    ELSE [ok |-> FALSE, entries |-> <<>>]

\* base.suggestedProjects[index]?.field
BaseProjectField(base, index, f) ==
    IF index <= Len(base.suggestedProjects) /\ f \in DOMAIN base.suggestedProjects[index]
    THEN JStr(base.suggestedProjects[index][f]) ELSE JUndefined

\* one element of raw.suggestedProjects.map(...): a field that ends up
\* undefined is a field the object does not carry once written as JSON
MergedProject(project, base, index) ==
    LET projectId == IF ~Nullish(Field(project, "projectId")) THEN Field(project, "projectId")
                     ELSE BaseProjectField(base, index, "projectId")
        projectName == IF ~Nullish(Field(project, "projectName")) THEN Field(project, "projectName")
                       ELSE IF ~Nullish(BaseProjectField(base, index, "projectName"))
                       THEN BaseProjectField(base, index, "projectName")
                       ELSE JStr(<<"Projeto ">> \o NatToText(index))
        rationale == IF ~Nullish(Field(project, "rationale")) THEN Field(project, "rationale")
                     ELSE IF ~Nullish(BaseProjectField(base, index, "rationale"))
                     THEN BaseProjectField(base, index, "rationale")
                     ELSE JStr(<<"Racional nao fornecido pelo modelo.">>)
    IN  IF projectId.t = "undefined"
        THEN [projectName |-> Held(projectName), rationale |-> Held(rationale)]
        ELSE [projectId |-> Held(projectId), projectName |-> Held(projectName),
              rationale |-> Held(rationale)]

\* Array.isArray(value) && value.length
NonEmptyArray(j) == j.t = "array" /\ Len(j.v) # 0

\* list.map(entry => String(entry)).filter(Boolean)
StringsOf(elements) == FilterSeq(LAMBDA text : text # <<>>, MapSeq(StringOf, elements))

\* raw.field ?? base.field
TextField(value, baseValue) == IF Nullish(value) THEN baseValue ELSE Held(value)

\* The loop body for an entry that has a baseline: [threw, insight].  Reading
\* project.projectId of a null element raises a TypeError.
MergeEntry(raw, base) ==
    LET rawProjects == Field(raw, "suggestedProjects")
    IN  IF NonEmptyArray(rawProjects) /\ \E i \in 1..Len(rawProjects.v) : Nullish(rawProjects.v[i])
        THEN [threw |-> TRUE, insight |-> base]
        ELSE [threw |-> FALSE,
              insight |->
                  [resourceId |-> base.resourceId,
                   resourceName |-> TextField(Field(raw, "resourceName"), base.resourceName),
                   summary |-> TextField(Field(raw, "summary"), base.summary),
                   suggestedProjects |->
                       IF NonEmptyArray(rawProjects)
                       THEN [i \in 1..Len(rawProjects.v) |->
                                 MergedProject(rawProjects.v[i], base, i)]
                       ELSE base.suggestedProjects,
                   developmentIdeas |->
                       IF NonEmptyArray(Field(raw, "developmentIdeas"))
                       THEN MapSeq(StringOf, Field(raw, "developmentIdeas").v)
                       ELSE base.developmentIdeas,
                   skillHighlights |->
                       IF NonEmptyArray(Field(raw, "skillHighlights"))
                       THEN StringsOf(Field(raw, "skillHighlights").v)
                       ELSE base.skillHighlights,
                   skillGaps |->
                       IF NonEmptyArray(Field(raw, "skillGaps"))
                       THEN StringsOf(Field(raw, "skillGaps").v)
                       ELSE base.skillGaps]]

\* raw.resourceId !== undefined ? String(raw.resourceId) : undefined
EntryResourceId(entry) ==
    IF Field(entry, "resourceId").t = "undefined" THEN ""
    ELSE IdOf(StringOf(Field(entry, "resourceId")))

\* the entries the loop does not skip: objects whose resourceId is that of a
\* heuristic
Matching(heuristics, azure) ==
    FilterSeq(LAMBDA entry :
                  /\ entry.t = "object"
                  /\ EntryResourceId(entry) # ""
                  /\ \E i \in 1..Len(heuristics) : heuristics[i].resourceId = EntryResourceId(entry),
              azure)

\* heuristicMap.get(resourceId): the last heuristic of that id
BaseOf(heuristics, resourceId) ==
    heuristics[CHOOSE i \in 1..Len(heuristics) :
                   /\ heuristics[i].resourceId = resourceId
                   /\ \A j \in (i + 1)..Len(heuristics) : heuristics[j].resourceId # resourceId]

\* A merge that returns what the reply's entries gave, in the reply's order.
mergeAsReplied(heuristics, azure) ==
    [threw |-> FALSE,
     insights |-> MapSeq(LAMBDA entry :
                             MergeEntry(entry, BaseOf(heuristics, EntryResourceId(entry))).insight,
                         Matching(heuristics, azure))]

\* mergeAzureWithHeuristics(heuristics, azure): [threw, insights]
mergeAzureWithHeuristics(heuristics, azure) ==
    LET entries == Matching(heuristics, azure)
        outcomes == MapSeq(LAMBDA entry :
                               [id |-> EntryResourceId(entry),
                                out |-> MergeEntry(entry, BaseOf(heuristics, EntryResourceId(entry)))],
                           entries)
        \* merged.get(id): what the last entry of that id set
        MergedGet(id) ==
            outcomes[CHOOSE i \in 1..Len(outcomes) :
                         /\ outcomes[i].id = id
                         /\ \A j \in (i + 1)..Len(outcomes) : outcomes[j].id # id].out.insight
    IN  IF \E i \in 1..Len(outcomes) : outcomes[i].out.threw
        THEN [threw |-> TRUE, insights |-> <<>>]
        ELSE [threw |-> FALSE,
              insights |->
                  MapSeq(LAMBDA item :
                             IF \E i \in 1..Len(outcomes) : outcomes[i].id = item.resourceId
                             THEN MergedGet(item.resourceId) ELSE item,
                         heuristics)]

-----------------------------------------------------------------------------
(* Specification SpecMerge: mergeAzureWithHeuristics on a heuristic        *)
(* baseline and the entries of a parsed reply                              *)

MaxEntries == 2

Word(w) == <<w>>
\* Payloads of insight generation: no resource; one resource; two resources
\* the second of which ranks first.
InsightPayloads ==
    {NoPayload,
     [resources |-> <<InsightResourceOf("1", <<"n">>)>>, projects |-> InsightProjects,
      recommendations |-> <<InsightRecOf("1", "p", Rat(1, 2))>>],
     [resources |-> <<InsightResourceOf("1", <<"n">>), InsightResourceOf("2", <<"m">>)>>,
      projects |-> InsightProjects,
      recommendations |-> <<InsightRecOf("2", "p", One), InsightRecOf("2", "q", Rat(1, 2))>>]}
HeuristicsOf(payloadIn) == MapSeq(buildHeuristicSuggestion, computeCandidateProfiles(payloadIn))

RichEntry(id) ==
    JObj([resourceId |-> JStr(Word(id)), resourceName |-> JStr(Word("N")), summary |-> JStr(Word("S")),
          suggestedProjects |-> JArr(<<JObj([projectId |-> JStr(Word("x")),
                                             projectName |-> JStr(Word("X")),
                                             rationale |-> JStr(Word("why"))]),
                                       JObj([projectName |-> JStr(Word("Y"))])>>),
          developmentIdeas |-> JArr(<<JStr(Word("d"))>>),
          skillHighlights |-> JArr(<<JStr(Word("h"))>>),
          skillGaps |-> JArr(<<JStr(Word("g"))>>)])
BareEntry(id) == JObj([resourceId |-> JStr(Word(id))])
EmptyEntry(id) ==
    JObj([resourceId |-> JStr(Word(id)), resourceName |-> JStr(<<>>), summary |-> JStr(<<>>),
          suggestedProjects |-> JArr(<<>>), developmentIdeas |-> JArr(<<>>),
          skillHighlights |-> JArr(<<>>), skillGaps |-> JArr(<<>>)])
WrongTypeEntry(id) ==
    JObj([resourceId |-> JNum(Word(id)), resourceName |-> JNull, summary |-> JNum(Word("7")),
          suggestedProjects |-> JStr(Word("x")), developmentIdeas |-> JStr(Word("d")),
          skillHighlights |-> JNum(Word("7")), skillGaps |-> JNull])
NullProjectEntry(id) ==
    JObj([resourceId |-> JStr(Word(id)), suggestedProjects |-> JArr(<<JNull>>)])
EntryPool ==
    {RichEntry("1"), BareEntry("1"), EmptyEntry("1"), WrongTypeEntry("1"), NullProjectEntry("1"),
     JObj([resourceId |-> JStr(Word("2")), summary |-> JStr(Word("U"))]),
     JObj([resourceId |-> JStr(Word("9")), summary |-> JStr(Word("S"))]),
     JObj([summary |-> JStr(Word("S"))]),
     JNull, JStr(Word("x"))}

Merge ==
    /\ gen = NoGen
    /\ \E payloadIn \in InsightPayloads, azure \in SeqsUpTo(EntryPool, MaxEntries) :
           \E heuristics \in {HeuristicsOf(payloadIn)} :
               /\ payload' = payloadIn
               /\ profiles' = computeCandidateProfiles(payloadIn)
               /\ gen' = [branch |-> "merged", heuristics |-> heuristics, azure |-> azure,
                          out |-> mergeAzureWithHeuristics(heuristics, azure)]
    /\ UNCHANGED <<slugVars, matchVars, storeVars, raceVars, loadVars, webVars>>

InitMerge == IdleSlug /\ IdleMatch /\ IdleStore /\ IdleInsight /\ IdleRace /\ IdleLoad /\ IdleWeb
NextMerge == Merge
SpecMerge == InitMerge /\ [][NextMerge]_vars

-----------------------------------------------------------------------------
(* azure-openai.ts: runAzureChat(messages), generateInsights(payload)      *)

DEFAULT_MODEL == "gpt-5-mini"

\* The Errors that reach the catch of generateInsights.  A cause and the
\* readings of the clock are kept as a mark of their presence.
StatusError == [message |-> <<"Azure OpenAI retornou ", "5", "0", "0">>, cause |-> "cause"]
NetworkError == [message |-> <<"fetch failed">>, cause |-> "cause"]
NullProjectError ==
    [message |-> <<"Cannot read properties of null (reading 'projectId')">>,
     cause |-> undefinedField]
WriteError == [message |-> <<"EIO: i/o error, write">>, cause |-> undefinedField]

\* A runAzureChat that sends its request again after a failure.
runAzureChatRetrying(reply) ==
    [threw |-> reply.kind # "ok", error |-> IF reply.kind = "network" THEN NetworkError ELSE StatusError,
     completion |-> IF reply.kind = "ok" THEN reply.completion ELSE [kind |-> "empty"],
     model |-> DEFAULT_MODEL, requests |-> IF reply.kind = "ok" THEN 1 ELSE 2]

\* runAzureChat on the reply its one fetch gets:
\* [threw, error, completion, model, requests]
runAzureChat(reply) ==
    IF reply.kind = "network"
    THEN [threw |-> TRUE, error |-> NetworkError, completion |-> [kind |-> "empty"],
          model |-> DEFAULT_MODEL, requests |-> 1]
    ELSE IF reply.kind = "status"
    THEN [threw |-> TRUE, error |-> StatusError, completion |-> [kind |-> "empty"],
          model |-> DEFAULT_MODEL, requests |-> 1]
    ELSE [threw |-> FALSE, error |-> StatusError, completion |-> reply.completion,
          model |-> DEFAULT_MODEL, requests |-> 1]

\* An error message that reports nothing.
ErrorMessageNone(error) == <<>>

\* error instanceof Error ? error.message : "Erro desconhecido ..."
ErrorMessage(error) == error.message

\* insights.map(insight => ({...insight, generatedAt, usingAzure, model,
\* latencyMs, rawAzureResponse}))
PersistRecords(insights, meta) ==
    MapSeq(LAMBDA insight :
               [f \in DOMAIN insight \cup DOMAIN meta \cup {"generatedAt"} |->
                    IF f = "generatedAt" THEN "now"
                    ELSE IF f \in DOMAIN meta THEN meta[f] ELSE insight[f]],
           insights)
\* A stamp that always says the provider was not used.
MetaUnstamped(usingAzure, model, latencyMs, rawAzureResponse) ==
    [usingAzure |-> FALSE, model |-> model, latencyMs |-> latencyMs,
     rawAzureResponse |-> rawAzureResponse]

Meta(usingAzure, model, latencyMs, rawAzureResponse) ==
    [usingAzure |-> usingAzure, model |-> model, latencyMs |-> latencyMs,
     rawAzureResponse |-> rawAzureResponse]

\* How the file system behaves during one call: the reads fail, the first
\* write fails, or every write fails.
StoreFaults == {"none", "read", "write1", "write"}
ReadFails(fault) == fault = "read"
WriteFails(fault, nth) == fault = "write" \/ (fault = "write1" /\ nth = 1)

\* persist(insights, meta) as the nth persist of the call:
\* [content, outcome, upserts]
persist(content, insights, meta, fault, nth) ==
    IF Len(insights) = 0 THEN [content |-> content, outcome |-> "returned", upserts |-> <<>>]
    ELSE LET records == PersistRecords(insights, meta)
             out == upsertStoredInsights(content, records, ReadFails(fault),
                                         WriteFails(fault, nth), FALSE)
         IN  [content |-> out.content, outcome |-> out.outcome,
              upserts |-> <<[records |-> records, outcome |-> out.outcome]>>]

NoResult == [usingAzure |-> FALSE, insights |-> <<>>, error |-> <<>>]
Ended(content, branch, requests, upserts, outcome, result) ==
    [content |-> content, branch |-> branch, requests |-> requests, upserts |-> upserts,
     outcome |-> outcome, result |-> result]

\* The catch block, lines 618-633, entered after `before` persists and
\* `requests` requests.
CatchBlock(content, heuristics, error, fault, before, requests) ==
    LET saved == persist(content, heuristics,
                         Meta(FALSE, undefinedField, undefinedField, error.cause),
                         fault, Len(before) + 1)
    IN  Ended(saved.content, "caught", requests, before \o saved.upserts, saved.outcome,
              IF saved.outcome = "returned"
              THEN [usingAzure |-> FALSE, insights |-> heuristics, error |-> ErrorMessage(error)]
              ELSE NoResult)

\* The try block after runAzureChat returned, lines 597-617.
TryBlock(content, heuristics, chat, fault) ==
    LET parsed == parseInsights(chat.completion)
        merged == IF parsed.ok THEN mergeAzureWithHeuristics(heuristics, parsed.entries)
                  ELSE [threw |-> FALSE, insights |-> heuristics]
    IN  IF merged.threw
        THEN CatchBlock(content, heuristics, NullProjectError, fault, <<>>, chat.requests)
        ELSE LET saved == persist(content, merged.insights,
                                  Meta(parsed.ok, chat.model, "measured", "completion"),
                                  fault, 1)
             IN  IF saved.outcome # "returned"
                 THEN CatchBlock(saved.content, heuristics, WriteError, fault, saved.upserts,
                                 chat.requests)
                 ELSE Ended(saved.content, IF parsed.ok THEN "merged" ELSE "unparseable",
                            chat.requests,
                            saved.upserts, "returned",
                            [usingAzure |-> parsed.ok, insights |-> merged.insights,
                             error |-> IF parsed.ok THEN Undefined
                                       ELSE <<"Resposta do Azure em formato inesperado. Utilizando heuristicas.">>])

\* generateInsights from line 527 on, the heuristics of the payload's
\* candidates computed: with the provider configured or not, on the reply
\* the provider gives and the faults of the file system
generateInsights(content, configured, heuristics, reply, fault) ==
    IF ~configured
    THEN LET saved == persist(content, heuristics,
                              Meta(FALSE, undefinedField, undefinedField, undefinedField),
                              fault, 1)
         IN  Ended(saved.content, "notConfigured", 0, saved.upserts, saved.outcome,
                   IF saved.outcome = "returned"
                   THEN [usingAzure |-> FALSE, insights |-> heuristics,
                         error |-> <<"Azure OpenAI nao configurado. Retornando heuristicas locais.">>]
                   ELSE NoResult)
    ELSE IF Len(heuristics) = 0
    THEN Ended(content, "noCandidates", 0, <<>>, "returned",
               [usingAzure |-> TRUE, insights |-> <<>>,
                error |-> <<"Nenhum candidato elegivel para gerar insights.">>])
    ELSE LET chat == runAzureChat(reply)
         IN  IF chat.threw
             THEN CatchBlock(content, heuristics, chat.error, fault, <<>>, chat.requests)
             ELSE TryBlock(content, heuristics, chat, fault)

-----------------------------------------------------------------------------
(* Specification SpecInsights: generateInsights calls, one after another   *)

MaxCalls == 2

JsonCompletion(value) == [kind |-> "json", value |-> value]
Completions ==
    {[kind |-> "empty"],
     JsonCompletion(JObj([answer |-> JStr(Word("x"))])),
     JsonCompletion(JArr(<<>>)),
     JsonCompletion(JArr(<<RichEntry("1"), JObj([resourceId |-> JStr(Word("9")),
                                                  summary |-> JStr(Word("S"))])>>)),
     JsonCompletion(JObj([insights |-> JArr(<<RichEntry("2"), BareEntry("1"),
                                              JObj([resourceId |-> JNum(Word("2")),
                                                    summary |-> JStr(Word("U"))])>>)])),
     JsonCompletion(JArr(<<NullProjectEntry("1")>>))}
ProviderReplies ==
    {[kind |-> "status"], [kind |-> "network"]}
    \cup {[kind |-> "ok", completion |-> completion] : completion \in Completions}

\* What insights_store.json holds before the first call
InsightStores ==
    {Absent,
     ArrayOf(<<[resourceId |-> "1", summary |-> Word("old"), usingAzure |-> FALSE],
               [resourceId |-> "3", summary |-> Word("old"), usingAzure |-> TRUE,
                model |-> DEFAULT_MODEL]>>)}

Generate ==
    /\ gen.branch # "computed"
    /\ gen.branch # "merged"
    /\ "calls" \in DOMAIN gen
    /\ gen.calls < MaxCalls
    /\ \E payloadIn \in InsightPayloads, reply \in ProviderReplies, fault \in StoreFaults :
           \E candidates \in {computeCandidateProfiles(payloadIn)} :
           \E heuristics \in {MapSeq(buildHeuristicSuggestion, candidates)} :
           \E out \in {generateInsights(store, gen.configured, heuristics, reply, fault)} :
               /\ payload' = payloadIn
               /\ profiles' = candidates
               /\ store' = out.content
               /\ prevStore' = store
               /\ gen' = [configured |-> gen.configured, calls |-> gen.calls + 1,
                          before |-> gen.branch, repeated |-> payloadIn = payload,
                          branch |-> out.branch,
                          heuristics |-> heuristics, reply |-> reply,
                          fault |-> fault, requests |-> out.requests,
                          upserts |-> out.upserts, outcome |-> out.outcome,
                          result |-> out.result]
               /\ lastOp' = [op |-> "generate", records |-> <<>>, readOk |-> ~ReadFails(fault),
                             outcome |-> out.outcome, value |-> <<>>]
    /\ sameAgain' = FALSE
    /\ UNCHANGED <<slugVars, matchVars, raceVars, loadVars, webVars>>

InitInsights ==
    /\ IdleSlug
    /\ IdleMatch
    /\ IdleRace /\ IdleLoad /\ IdleWeb
    /\ store \in InsightStores
    /\ prevStore = store
    /\ sameAgain = FALSE
    /\ lastOp = [op |-> "none", records |-> <<>>, readOk |-> TRUE,
                 outcome |-> "returned", value |-> <<>>]
    /\ payload = NoPayload
    /\ profiles = <<>>
    /\ gen \in {[branch |-> "none", configured |-> configured, calls |-> 0] :
                    configured \in BOOLEAN}
NextInsights == Generate
SpecInsights == InitInsights /\ [][NextInsights]_vars


------------------------------------------------------------------------------
(* Specification SpecSuggest: buildHeuristicSuggestion on the profiles of  *)
(* payloads whose labels differ in case and white space                    *)

MaxLabels == 2       \* longest list of skills of a resource, of needs of a project

\* labels that are equal after trim and lower-casing, and a blank one
LabelPool == {<<"A">>, <<"a", " ">>, <<"b">>, <<" ">>}
LabelLists == SeqsUpTo(LabelPool, MaxLabels)
TechLists == {<<>>, << <<"B">> >>, << <<" ", "a">>, <<"c">> >>}
MatchedLists == {<<>>, << <<"a">> >>, << <<"e">>, <<"E", " ">> >>}

SuggestPayloads ==
    {[resources |->
          <<[id |-> "1", name |-> <<"n">>, macroArea |-> <<"I">>, availability |-> Rat(2, 5),
             skills |-> MapSeq(LAMBDA label : [name |-> label], skills),
             preferredTechs |-> techs]>>,
      projects |->
          <<[id |-> "p", name |-> <<"P">>,
             needs |-> MapSeq(LAMBDA label : [label |-> label, skillId |-> "s"], needs)],
            [id |-> "q", name |-> <<"Q">>,
             needs |-> <<[label |-> <<"c">>, skillId |-> "c"],
                         [label |-> <<"D">>, skillId |-> "d"],
                         [label |-> <<"d", " ">>, skillId |-> "d"]>>]>>,
      recommendations |->
          <<[resourceId |-> "1", projectId |-> "p", projectName |-> <<"P">>,
             score |-> Rat(1, 2), matchedSkills |-> matched],
            [resourceId |-> "1", projectId |-> "q", projectName |-> <<"Q">>,
             score |-> One, matchedSkills |-> << <<"C">> >>]>>] :
        skills \in LabelLists, techs \in TechLists, needs \in LabelLists,
        matched \in MatchedLists}

\* computeCandidateProfiles, then buildHeuristicSuggestion on each profile
\* (generateInsights lines 527-528)
Suggest ==
    /\ gen = NoGen
    /\ \E payloadIn \in SuggestPayloads :
           \E candidates \in {computeCandidateProfiles(payloadIn)} :
               /\ payload' = payloadIn
               /\ profiles' = candidates
               /\ gen' = [branch |-> "suggested",
                          suggestions |-> MapSeq(buildHeuristicSuggestion, candidates)]
    /\ UNCHANGED <<slugVars, matchVars, storeVars, raceVars, loadVars, webVars>>

InitSuggest == IdleSlug /\ IdleMatch /\ IdleStore /\ IdleInsight /\ IdleRace /\ IdleLoad /\ IdleWeb
NextSuggest == Suggest
SpecSuggest == InitSuggest /\ [][NextSuggest]_vars


------------------------------------------------------------------------------
(* Specification SpecRace: upsertStoredInsights called by several callers  *)
(* at once.  Every await of ensureStoreFile, loadStoredInsights and        *)
(* upsertStoredInsights is a point where another caller may run.           *)

MaxCallers == 2      \* callers of upsertStoredInsights running at once

Callers == 1..MaxCallers
\* the one record caller p upserts: each caller has its own resourceId
RaceRecord(p) == [resourceId |-> IdSeq[p], summary |-> "sumA", usingAzure |-> FALSE]
RaceStores ==
    {Absent, ArrayOf(<<>>),
     ArrayOf(<<[resourceId |-> "9", summary |-> "sumB", usingAzure |-> TRUE,
                model |-> "gpt-5-mini"]>>)}

\* what the caller writes: existing.forEach(set), records.forEach(set),
\* JSON.stringify(Array.from(map.values()))
WrittenBy(existing, records) ==
    ArrayOf(MapSeq(JsonRoundTrip, MapSetAll(MapSetAll(<<>>, existing), records)))

Step(p, from, to) ==
    /\ UNCHANGED <<lastOp, sameAgain, slugVars, matchVars, insightVars, loadVars, webVars>>
    /\ race.pc[p] = from
    /\ race' = [race EXCEPT !.pc[p] = to,
                            !.events = Append(@, [caller |-> p, step |-> to])]

\* ensureStoreFile, line 329: await fs.access(STORE_PATH)
Access(p) ==
    /\ Step(p, "start", IF store.kind = "absent" THEN "absent" ELSE "found")
    /\ UNCHANGED <<store, prevStore>>

\* ensureStoreFile, line 331: await fs.writeFile(STORE_PATH, "[]")
Create(p) ==
    /\ Step(p, "absent", "created")
    /\ store' = ArrayOf(<<>>)
    /\ prevStore' = store

\* loadStoredInsights, lines 338-343: await fs.readFile, JSON.parse
Read(p) ==
    /\ UNCHANGED <<lastOp, sameAgain, slugVars, matchVars, insightVars, loadVars, webVars>>
    /\ race.pc[p] \in {"found", "created"}
    /\ race' = [race EXCEPT !.pc[p] = "read",
                            !.existing[p] = loadStoredInsights(store, FALSE).value,
                            !.events = Append(@, [caller |-> p, step |-> "read"])]
    /\ UNCHANGED <<store, prevStore>>

\* upsertStoredInsights, lines 354-362: the map, await fs.writeFile
Write(p) ==
    /\ Step(p, "read", "written")
    /\ store' = WrittenBy(race.existing[p], <<RaceRecord(p)>>)
    /\ prevStore' = store

InitRace ==
    /\ IdleSlug
    /\ IdleMatch
    /\ IdleInsight /\ IdleLoad /\ IdleWeb
    /\ store \in RaceStores
    /\ prevStore = store
    /\ sameAgain = FALSE
    /\ lastOp = [op |-> "none", records |-> <<>>, readOk |-> TRUE,
                 outcome |-> "returned", value |-> <<>>]
    /\ race = [pc |-> [p \in Callers |-> "start"],
               existing |-> [p \in Callers |-> <<>>],
               events |-> <<>>]
NextRace ==
    \/ \E p \in Callers : Access(p)
    \/ \E p \in Callers : Create(p)
    \/ \E p \in Callers : Read(p)
    \/ \E p \in Callers : Write(p)
SpecRace == InitRace /\ [][NextRace]_vars


------------------------------------------------------------------------------
(* page.tsx: reanalyzeEmployees(ids), started by handleAnalyzeSelected and *)
(* handleAnalyzeEmployee.  The function runs without interruption from one *)
(* await to the next: up to the fetch of the first id, then from each      *)
(* settled promise (fetch, response.text(), response.json()) to the next   *)
(* fetch or to the end.                                                    *)

MaxSelected == 2     \* most ids handed to reanalyzeEmployees
MaxRuns == 2         \* batches started one after the other

RECURSIVE UniqueIds(_, _)
\* Array.from(new Set(ids.map(String))): first occurrences, in order
UniqueIds(seen, ids) ==
    IF ids = <<>> THEN seen
    ELSE UniqueIds(IF \E i \in 1..Len(seen) : seen[i] = Head(ids) THEN seen
                   ELSE Append(seen, Head(ids)),
                   Tail(ids))

\* lines 1051-1057: the summary message
Summary(b) ==
    IF Len(b.failureDetails) # 0
    THEN [kind |-> "warnings", success |-> Len(b.successIds),
          failures |-> Len(b.failureDetails), first |-> b.failureDetails[1]]
    ELSE [kind |-> "success", success |-> Len(b.successIds)]

\* An end of the function that leaves the flag as it is.
FinishedStuck(b) == [b EXCEPT !.pc = "done", !.message = Summary(b)]

\* lines 1051-1058: after the loop, the summary and setIsAnalyzing(false)
Finished(b) ==
    [b EXCEPT !.pc = "done", !.message = Summary(b), !.isAnalyzing = FALSE]

\* lines 1002-1014: the loop test, the progress message and the fetch with
\* body { resourceIds: [employeeId] }; after the last id, the summary
Iterate(b) ==
    IF b.index <= Len(b.uniqueIds)
    THEN [b EXCEPT !.pc = "fetch",
                   !.message = [kind |-> "progress", index |-> b.index,
                                total |-> Len(b.uniqueIds)],
                   !.sent = Append(@, <<b.uniqueIds[b.index]>>),
                   !.inFlight = @ + 1]
    ELSE Finished(b)

\* A loop left after its first id.
EndIterationBreak(b, outcome) ==
    Finished([b EXCEPT !.outcomes = Append(@, outcome), !.inFlight = @ - 1])

\* the end of one pass of the loop body: index += 1, and the next pass
EndIteration(b, outcome) ==
    Iterate([b EXCEPT !.outcomes = Append(@, outcome),
                      !.inFlight = @ - 1,
                      !.index = @ + 1])

\* the catch block, lines 1045-1048, on an error of that message
Caught(b, message) ==
    EndIteration([b EXCEPT !.failureDetails =
                               Append(@, [id |-> b.uniqueIds[b.index], message |-> message])],
                 "threw")

RECURSIVE ShownAfter(_, _)
\* setInsightState's updater on the insights shown, lines 1025-1029
ShownAfter(shown, insights) ==
    IF insights = <<>> THEN shown
    ELSE ShownAfter(IF \E i \in 1..Len(shown) : shown[i] = Head(insights) THEN shown
                    ELSE Append(shown, Head(insights)),
                    Tail(insights))

\* lines 1023-1044: the response's data applied
Applied(b, data) ==
    LET id == b.uniqueIds[b.index]
        pushed == [b EXCEPT !.shown = ShownAfter(@, data.insights),
                            !.successIds = Append(@, id)]
    IN  IF data.error # Undefined /\ data.error # <<>>
        THEN EndIteration([pushed EXCEPT !.failureDetails =
                                             Append(@, [id |-> id, message |-> data.error])],
                          "error")
        ELSE EndIteration(pushed, "ok")

------------------------------------------------------------------------------
(* Specification SpecBatch: batches of re-analysis, one after the other    *)

IdleBatch ==
    [pc |-> "idle", isAnalyzing |-> FALSE, message |-> [kind |-> "none"],
     ids |-> <<>>, uniqueIds |-> <<>>, index |-> 1, successIds |-> <<>>,
     failureDetails |-> <<>>, sent |-> <<>>, inFlight |-> 0, outcomes |-> <<>>,
     shown |-> <<>>, runs |-> 0]
SelectedLists == SeqsUpTo({"1", "2"}, MaxSelected)
\* what response.json() may resolve to for a request of one id
DataFor(id) ==
    {[insights |-> <<id>>, error |-> Undefined],
     [insights |-> <<id>>, error |-> <<"Azure OpenAI nao configurado.">>],
     [insights |-> <<>>, error |-> <<"Nenhum candidato elegivel.">>],
     [insights |-> <<id>>, error |-> <<>>]}

\* handleAnalyzeSelected / handleAnalyzeEmployee (both return when
\* isAnalyzing), then reanalyzeEmployees up to its first await
Start ==
    /\ ~batch.isAnalyzing
    /\ batch.runs < MaxRuns
    /\ \E ids \in SelectedLists :
           \E uniqueIds \in {UniqueIds(<<>>, ids)} :
               batch' = IF Len(uniqueIds) = 0
                        THEN [batch EXCEPT !.runs = @ + 1]
                        ELSE Iterate([batch EXCEPT
                                 !.runs = @ + 1,
                                 !.ids = ids,
                                 !.uniqueIds = uniqueIds,
                                 !.isAnalyzing = TRUE,
                                 !.message = [kind |-> "starting", total |-> Len(uniqueIds)],
                                 !.index = 1,
                                 !.successIds = <<>>,
                                 !.failureDetails = <<>>,
                                 !.sent = <<>>,
                                 !.outcomes = <<>>])
    /\ UNCHANGED <<slugVars, matchVars, storeVars, insightVars, raceVars, loadVars>>

\* the fetch settles: it rejects, or resolves to a response that is ok or
\* not
FetchSettles ==
    /\ batch.pc = "fetch"
    /\ \E settled \in {"rejected", "notOk", "ok"} :
           batch' = IF settled = "rejected" THEN Caught(batch, <<"Failed to fetch">>)
                    ELSE [batch EXCEPT !.pc = IF settled = "ok" THEN "json" ELSE "text"]
    /\ UNCHANGED <<slugVars, matchVars, storeVars, insightVars, raceVars, loadVars>>

\* response.text() settles: whatever it gives, line 1018 throws or the
\* rejection is thrown, and the catch block runs
TextSettles ==
    /\ batch.pc = "text"
    /\ \E settled \in {"rejected", "text", "empty"} :
           batch' = Caught(batch, IF settled = "text" THEN <<"Internal Server Error">>
                                  ELSE IF settled = "empty" THEN <<"Falha HTTP ", "5", "0", "0">>
                                  ELSE <<"body stream already read">>)
    /\ UNCHANGED <<slugVars, matchVars, storeVars, insightVars, raceVars, loadVars>>

\* response.json() settles
JsonSettles ==
    /\ batch.pc = "json"
    /\ \/ batch' = Caught(batch, <<"Unexpected token < in JSON">>)
       \/ \E data \in DataFor(batch.uniqueIds[batch.index]) : batch' = Applied(batch, data)
    /\ UNCHANGED <<slugVars, matchVars, storeVars, insightVars, raceVars, loadVars>>

InitBatch ==
    /\ IdleSlug /\ IdleMatch /\ IdleStore /\ IdleInsight /\ IdleRace /\ IdleLoad
    /\ batch = IdleBatch
NextBatch == Start \/ FetchSettles \/ TextSettles \/ JsonSettles
SpecBatch == InitBatch /\ [][NextBatch]_vars
\* every promise the function awaits settles
SpecBatchFair ==
    /\ SpecBatch
    /\ WF_vars(FetchSettles) /\ WF_vars(TextSettles) /\ WF_vars(JsonSettles)


------------------------------------------------------------------------------
(* prodam.ts: readJson, the parse functions, loadProdAmCatalog.            *)
(* index.ts: loadMockData.  dataset.ts: loadProjects,                      *)
(* buildResourceProfiles, buildDataset.                                    *)
(* A catalog file is absent, holds text JSON.parse rejects, or holds a     *)
(* JSON value; an entry is [id, name] with the name undefined when the     *)
(* entry lacks it.  A CSV file is absent or holds the records parseCsv     *)
(* reads from it; a record of a file with other columns has undefined in   *)
(* every field the loaders read.  Fields no property reads are left out.   *)

JsonAbsent == [kind |-> "absent"]
JsonGarbage == [kind |-> "text"]
JsonOf(value) == [kind |-> "json", value |-> value]
NoSuchFile == <<"ENOENT: no such file or directory">>

\* readJson: fs.readFileSync, then JSON.parse: [threw, error, list]
readJson(file) ==
    IF file.kind = "absent" THEN [threw |-> TRUE, error |-> NoSuchFile, list |-> <<>>]
    ELSE IF file.kind = "text"
    THEN [threw |-> TRUE, error |-> <<"Unexpected token in JSON">>, list |-> <<>>]
    ELSE [threw |-> FALSE, error |-> <<>>, list |-> file.value]

\* parseAreas, parseDirectorates, parseJobs, parseManagers, parseEmployees:
\* entries.map(entry => ... name.trim() ...): [threw, error, list]
parseEntries(value) ==
    IF value.t # "array"
    THEN [threw |-> TRUE, error |-> <<"entries.map is not a function">>, list |-> <<>>]
    ELSE IF \E i \in 1..Len(value.v) : value.v[i].name = Undefined
    THEN [threw |-> TRUE,
          error |-> <<"Cannot read properties of undefined (reading 'trim')">>,
          list |-> <<>>]
    ELSE [threw |-> FALSE, error |-> <<>>,
          list |-> MapSeq(LAMBDA entry : [id |-> entry.id, name |-> Trim(entry.name)],
                          value.v)]

\* parseX(readJson(file))
ParsedFile(file) ==
    LET read == readJson(file)
    IN  IF read.threw THEN read ELSE parseEntries(read.list)

CatalogFileNames == <<"areas", "diretorias", "jobs", "managers", "funcionarios">>

\* loadProdAmCatalog: the five files in order inside try; the catch block
\* returns the empty catalog with meta.error
loadProdAmCatalog(files) ==
    LET steps == [i \in 1..5 |-> ParsedFile(files[CatalogFileNames[i]])]
        failed == {i \in 1..5 : steps[i].threw}
    IN  IF failed = {}
        THEN [areas |-> steps[1].list, directorates |-> steps[2].list, jobs |-> steps[3].list,
              managers |-> steps[4].list, employees |-> steps[5].list,
              meta |-> [source |-> "produtorio-json", error |-> Undefined]]
        ELSE [areas |-> <<>>, directorates |-> <<>>, jobs |-> <<>>, managers |-> <<>>,
              employees |-> <<>>,
              meta |-> [source |-> "produtorio-json",
                        error |-> steps[CHOOSE i \in failed : \A j \in failed : i <= j].error]]

CsvAbsent == [kind |-> "absent"]
CsvOf(records) == [kind |-> "text", records |-> records]
\* parseCsv(readTextFile(path)): readFileSync throws on an absent file,
\* parseCsv takes any text: [threw, records]
readCsv(file) ==
    IF file.kind = "absent" THEN [threw |-> TRUE, records |-> <<>>]
    ELSE [threw |-> FALSE, records |-> file.records]

NoDataset == [resources |-> <<>>, projects |-> <<>>, recommendations |-> <<>>]

\* loadMockData, lines 158-191: [threw, dataset]
loadMockData(files) ==
    LET projectFile == readCsv(files.projects)
        resourceFile == readCsv(files.resources)
        affinityFile == readCsv(files.affinity)
        projectRecords == FilterSeq(LAMBDA record : ~IsPaRecord(record), projectFile.records)
        resources == MapSeq(buildResource, resourceFile.records)
        projects == MapSeq(buildProject, projectRecords)
        resourceLookup == ResourceLookup(resources)
        projectLookup == ProjectLookup(projectRecords, projects)
        recommendations ==
            sortByScoreDesc(Emitted(Concat(MapSeq(
                LAMBDA record : buildRecommendation(record, projectLookup, resourceLookup),
                affinityFile.records))))
    IN  IF projectFile.threw \/ resourceFile.threw \/ affinityFile.threw
        THEN [threw |-> TRUE, dataset |-> NoDataset]
        ELSE [threw |-> FALSE,
              dataset |-> [resources |-> resources,
                           projects |-> projects,
                           recommendations |->
                               IF Len(recommendations) # 0 THEN recommendations
                               ELSE buildRecommendations(resources, projects).list]]

\* dataset.ts lines 173-193: one ProjectProfile
apiBuildProject(record) ==
    [id |-> slugify(OrElse(record.SiglaSistema, <<>>) \o <<"-">>
                    \o OrElse(OrElse(record.TituloDemanda, record.NomeSistema), <<>>)),
     macroArea |-> OrElse(record.MacroAreaNegocio, Undefined),
     needs |-> MapSeq(LAMBDA label : [skillId |-> slugify(label), label |-> label],
                      sanitizeList(record.PerfisHumanosIndicados, "|"))]

\* loadProjects: [threw, list]
loadProjects(file) ==
    LET read == readCsv(file)
    IN  IF read.threw THEN [threw |-> TRUE, list |-> <<>>]
        ELSE [threw |-> FALSE,
              list |-> MapSeq(apiBuildProject,
                              FilterSeq(LAMBDA record : ~IsPaRecord(record), read.records))]

\* buildResourceProfiles(employees, insights), lines 197-227
buildResourceProfiles(employees, insights) ==
    MapSeq(LAMBDA employee :
               LET found == {i \in 1..Len(insights) : insights[i].resourceId = employee.id}
                   insight == insights[CHOOSE i \in found : \A j \in found : j <= i]
                   highlightSkills ==
                       IF found = {} \/ "skillHighlights" \notin DOMAIN insight THEN <<>>
                       ELSE FilterSeq(LAMBDA entry : entry # <<>>, insight.skillHighlights)
               IN  [id |-> employee.id,
                    macroArea |-> Null,
                    availability |-> Null,
                    availabilityHours |-> Null,
                    skills |-> MapSeq(LAMBDA name : [id |-> slugify(name), name |-> name],
                                      highlightSkills)],
           employees)

\* buildDataset, lines 294-306: [threw, content, dataset]
buildDataset(files, content, readFails) ==
    LET catalog == loadProdAmCatalog(files.catalog)
        stored == loadStoredInsights(content, readFails)
        projects == loadProjects(files.projects)
        resources == buildResourceProfiles(catalog.employees, stored.value)
    IN  IF projects.threw
        THEN [threw |-> TRUE, content |-> stored.content, dataset |-> NoDataset]
        ELSE [threw |-> FALSE, content |-> stored.content,
              dataset |-> [resources |-> resources,
                           projects |-> projects.list,
                           recommendations |->
                               apiBuildRecommendations(resources, projects.list).list]]

\* ---- inputs of the loaders ----
GoodEntries == JsonOf([t |-> "array",
                       v |-> <<[id |-> "1", name |-> <<"a", " ">>],
                               [id |-> "2", name |-> <<"b">>]>>])
JsonFiles ==
    {JsonAbsent, JsonGarbage, JsonOf([t |-> "object"]),
     JsonOf([t |-> "array", v |-> <<[id |-> "1", name |-> Undefined]>>]),
     GoodEntries}
CatalogFiles == [{CatalogFileNames[i] : i \in 1..5} -> JsonFiles]
GoodCatalog == [name \in {CatalogFileNames[i] : i \in 1..5} |-> GoodEntries]
DatasetCatalogs ==
    {[GoodCatalog EXCEPT !.funcionarios = file] : file \in JsonFiles}
    \cup {[GoodCatalog EXCEPT !.areas = JsonAbsent]}

\* a record of a CSV file that has none of the columns the loader reads
OtherProjectRecord ==
    [SiglaSistema |-> Undefined, TituloDemanda |-> Undefined, NomeSistema |-> Undefined,
     MacroAreaNegocio |-> Undefined, PerfisHumanosIndicados |-> Undefined]
OtherResourceRecord ==
    [FuncionarioID |-> Undefined, CargaDisponivelHoras |-> Undefined,
     MacroAreaEspecialidade |-> Undefined, CompetenciasChave |-> Undefined,
     TecnologiasPreferenciais |-> Undefined]
OtherRow ==
    [SiglaSistema |-> Undefined, TituloDemanda |-> Undefined, ScoreAfinidade |-> Undefined,
     FuncionariosIndicadosIDs |-> Undefined]
HourTexts ==
    {<<"6", "4">>, <<>>, <<"-", "8">>, <<"x">>, <<"2", "0", "0">>, <<"1", "6", "0">>}
ProjectFiles ==
    {CsvAbsent, CsvOf(<<>>), CsvOf(<<OtherProjectRecord>>)}
    \cup {CsvOf(records) : records \in ProjectRecordLists}
ResourceFiles ==
    {CsvAbsent, CsvOf(<<>>), CsvOf(<<OtherResourceRecord>>)}
    \cup {CsvOf(<<[FuncionarioID |-> R1,
                   CargaDisponivelHoras |-> hours,
                   MacroAreaEspecialidade |-> <<"I">>,
                   CompetenciasChave |-> <<"A", "|", "a">>,
                   TecnologiasPreferenciais |-> <<"a">>]>>) : hours \in HourTexts}
AffinityFiles ==
    {CsvAbsent, CsvOf(<<>>), CsvOf(<<OtherRow>>)}
    \cup {CsvOf(<<row>>) : row \in {r \in RowPool : r.ScoreAfinidade \in {<<>>, <<"0", ".", "8", "2">>}}}
LoaderStores ==
    {Absent, Corrupt,
     ArrayOf(<<[resourceId |-> "1", summary |-> <<"s">>,
                skillHighlights |-> << <<"a">>, <<"A">>, <<>> >>],
               [resourceId |-> "2", summary |-> <<"t">>,
                skillHighlights |-> << <<"b">> >>]>>)}

\* one call of loadProdAmCatalog
LoadCatalog ==
    /\ loader.entry = "none"
    /\ \E files \in CatalogFiles :
           loader' = [entry |-> "catalog", files |-> files, outcome |-> "returned",
                      result |-> loadProdAmCatalog(files)]
    /\ UNCHANGED <<slugVars, matchVars, storeVars, insightVars, raceVars, webVars>>

\* one call of loadMockData
LoadMockData ==
    /\ loader.entry = "none"
    /\ \E projects \in ProjectFiles, resources \in ResourceFiles, affinity \in AffinityFiles :
           LET files == [projects |-> projects, resources |-> resources, affinity |-> affinity]
           IN  \E out \in {loadMockData(files)} :
                   loader' = [entry |-> "mock", files |-> files,
                              outcome |-> IF out.threw THEN "threw" ELSE "returned",
                              result |-> out.dataset]
    /\ UNCHANGED <<slugVars, matchVars, storeVars, insightVars, raceVars, webVars>>

\* one call of buildDataset
BuildDataset ==
    /\ loader.entry = "none"
    /\ \E catalog \in DatasetCatalogs, projects \in ProjectFiles, readFails \in BOOLEAN :
           LET files == [catalog |-> catalog, projects |-> projects]
           IN  \E out \in {buildDataset(files, store, readFails)} :
                   /\ loader' = [entry |-> "dataset", files |-> files,
                                 outcome |-> IF out.threw THEN "threw" ELSE "returned",
                                 result |-> out.dataset]
                   /\ store' = out.content
                   /\ prevStore' = store
    /\ UNCHANGED <<slugVars, matchVars, lastOp, sameAgain, insightVars, raceVars, webVars>>

InitLoaders ==
    /\ IdleSlug
    /\ IdleMatch
    /\ IdleInsight /\ IdleRace /\ IdleLoad /\ IdleWeb
    /\ store \in LoaderStores
    /\ prevStore = store
    /\ sameAgain = FALSE
    /\ lastOp = [op |-> "none", records |-> <<>>, readOk |-> TRUE,
                 outcome |-> "returned", value |-> <<>>]

NextLoaders ==
    \/ LoadCatalog
    \/ LoadMockData
    \/ BuildDataset

SpecLoaders == InitLoaders /\ [][NextLoaders]_vars

-----------------------------------------------------------------------------
(* Properties                                                              *)

AllRowRecs == Range(Concat(rowOut))
FormulaScore(rec) ==
    clamp(WeightedScore([skillCoverage |-> Rat(5, 10), availability |-> Rat(3, 10),
                         coordination |-> Rat(2, 10)],
                        rec.matchDetail.skillCoverage,
                        rec.matchDetail.availabilityScore,
                        rec.matchDetail.coordinationScore),
          Zero, One)
IsNumber(x) == x # Null /\ x # Undefined /\ x # NaN

\* C1: every Recommendation of a compute-from-scratch builder (core.ts and
\* dataset.ts) has score = clamp(0.5*skillCoverage + 0.3*availabilityScore
\* + 0.2*coordinationScore, 0, 1) over the sub-scores of its matchDetail.
C1_ScoreIsWeightedFormula ==
    call \in {"core", "api"} =>
        \A i \in 1..Len(recs) : recs[i].score = FormulaScore(recs[i])

\* C2: every Recommendation of every path (core.ts, the affinity rows of
\* index.ts, dataset.ts) has 0 <= score <= 1, whatever the availability and
\* the supplied score.
C2_ScoreInUnitInterval ==
    \A rec \in Range(recs) \cup AllRowRecs :
        RLe(Zero, rec.score) /\ RLe(rec.score, One)

\* C2 witness: an affinity row whose supplied score reads above 1 produced
\* a Recommendation.
C2_Witness ==
    /\ call = "load"
    /\ \E i \in 1..Len(inRows) :
           /\ RLt(One, parseNumber(inRows[i].ScoreAfinidade))
           /\ rowOut[i] # <<>>
           /\ \E k \in 1..Len(recs) : recs[k] \in Range(rowOut[i])

\* The score an affinity row supplies: the decimal number its ScoreAfinidade
\* field writes, NaN when the field is missing, empty or no number.
SuppliedScore(text) == IF text = Undefined \/ text = <<>> THEN NaN ELSE ParseFloat(text)

\* C3: in the affinity path the score of a row's Recommendation is the
\* supplied score clamped to [0,1] when it is present and > 0, and the
\* weighted formula otherwise.
C3_SuppliedScoreWins ==
    call = "load" =>
        \A i \in 1..Len(inRows) : \A k \in 1..Len(rowOut[i]) :
            LET rec == rowOut[i][k]
                supplied == SuppliedScore(inRows[i].ScoreAfinidade)
            IN  IF supplied # NaN /\ RLt(Zero, supplied)
                THEN rec.score = clamp(supplied, Zero, One)
                ELSE rec.score = FormulaScore(rec)

\* C4: a row whose ScoreAfinidade field reads 0.82, for a project and a
\* resource that resolve, yields a Recommendation of score exactly 0.82.
C4_Score082Kept ==
    call = "load" =>
        \A i \in 1..Len(inRows) :
            inRows[i].ScoreAfinidade = <<"0", ".", "8", "2">> =>
                \A k \in 1..Len(rowOut[i]) : rowOut[i][k].score = Rat(82, 100)

\* C5: every Recommendation of a compute-from-scratch builder (core.ts and
\* dataset.ts) has at least one matched skill and a resource whose
\* availability is > 0.
C5_NoRecWithoutMatchOrAvailability ==
    call \in {"core", "api"} =>
        \A i \in 1..Len(recs) :
            /\ Len(recs[i].matchedSkills) >= 1
            /\ \A j \in 1..Len(inResources) :
                   inResources[j].id = recs[i].resourceId =>
                       /\ IsNumber(inResources[j].availability)
                       /\ RLt(Zero, inResources[j].availability)

\* C6: the list a builder returns (core.ts, dataset.ts, loadMockData by
\* either path) is sorted by score, highest first.
C6_SortedByScore ==
    \A i \in 1..Len(recs) : \A j \in i..Len(recs) : RLe(recs[j].score, recs[i].score)

\* C6 witness: the core builder returned a list that is not in the order
\* its pairs were enumerated in.
C6_Witness ==
    /\ call = "core"
    /\ Len(recs) >= 2
    /\ recs # Emitted(CorePairs(inResources, inProjects))
    /\ recs[1].score # recs[Len(recs)].score

\* C7: no builder evaluates a division by a need count of 0, and a
\* Recommendation of the affinity path for a project without needs has
\* skillCoverage 0.
C7_NoNeedsNoDivision ==
    /\ 0 \notin divisors
    /\ \A rec \in AllRowRecs : \A j \in 1..Len(inProjects) :
           (inProjects[j].id = rec.projectId /\ inProjects[j].needs = <<>>) =>
               rec.matchDetail.skillCoverage = Zero

\* C7 witness: the affinity path produced a Recommendation for a project
\* without needs.
C7_Witness ==
    /\ call = "load"
    /\ \E rec \in AllRowRecs : \E j \in 1..Len(inProjects) :
           inProjects[j].id = rec.projectId /\ inProjects[j].needs = <<>>

\* C8: slugify is idempotent: slugifying a slug returns it unchanged.
C8_SlugifyIdempotent == slugCall = "again" => slugOut = slugIn

\* C8 witness: a text with an accented or upper-case letter was slugified
\* to a non-empty slug different from it, and the slug slugified again.
C8_Witness ==
    /\ slugCall = "again"
    /\ slugIn # slugOrig
    /\ slugIn # <<>>
    /\ \E i \in 1..Len(slugOrig) : slugOrig[i] \in {"a_acute", "A_tilde", "B"}

IdsOf(records) == {records[i].resourceId : i \in 1..Len(records)}
\* the record a Map built from the list holds under id: the last one
LastWithId(records, id) ==
    records[CHOOSE i \in 1..Len(records) :
                /\ records[i].resourceId = id
                /\ \A j \in (i + 1)..Len(records) : records[j].resourceId # id]
UpsertReturned ==
    lastOp.op = "upsert" /\ lastOp.outcome = "returned" /\ lastOp.records # <<>>

C11_NeverDeletes == IdsOf(prevStore.records) \subseteq IdsOf(store.records)

ProfileIds == {profiles[i].resource.id : i \in 1..Len(profiles)}
PayloadResourceIds == {payload.resources[i].id : i \in 1..Len(payload.resources)}
RecsOf(id) == {i \in 1..Len(payload.recommendations) : payload.recommendations[i].resourceId = id}
\* the mean of the scores of a match list, 0 for the empty list
MeanOfMatches(matches) ==
    IF matches = <<>> THEN Zero
    ELSE LET sum == SumScores(MapSeq(LAMBDA m : m.recommendation, matches))
         IN  Rat(sum[1], sum[2] * Len(matches))
\* the averageScore the resource of that id is ranked by
RankedAverage(id) ==
    MeanOfMatches(MapSeq(LAMBDA r : [recommendation |-> r],
                         Slice(sortByScoreDesc(Grouped(payload.recommendations, id)), 3)))

\* C19: computeCandidateProfiles returns at most 5 candidates, for distinct
\* resources of the payload, in non-increasing averageScore, none omitted
\* with a strictly higher averageScore; a candidate's matches are the (at
\* most 3) highest-scoring recommendations of its resource, in non-increasing
\* score, and its averageScore is their mean.
C19_TopCandidates ==
    gen.branch = "computed" =>
        /\ Len(profiles) <= 5
        /\ \A i, j \in 1..Len(profiles) :
               i < j => /\ profiles[i].resource.id # profiles[j].resource.id
                        /\ RLe(profiles[j].averageScore, profiles[i].averageScore)
        /\ ProfileIds \subseteq PayloadResourceIds
        /\ \A id \in PayloadResourceIds \ ProfileIds : \A i \in 1..Len(profiles) :
               ~RLt(profiles[i].averageScore, RankedAverage(id))
        /\ \A i \in 1..Len(profiles) :
               LET p == profiles[i]
                   own == RecsOf(p.resource.id)
                   n == Cardinality(own)
               IN  /\ Len(p.matches) = IF n < 3 THEN n ELSE 3
                   /\ \A k \in 1..Len(p.matches) :
                          /\ \E r \in own :
                                 payload.recommendations[r] = p.matches[k].recommendation
                          /\ \A l \in k..Len(p.matches) :
                                 RLe(p.matches[l].recommendation.score,
                                     p.matches[k].recommendation.score)
                          /\ \A r \in own :
                                 \/ RLe(payload.recommendations[r].score,
                                        p.matches[k].recommendation.score)
                                 \/ \E l \in 1..Len(p.matches) :
                                        p.matches[l].recommendation = payload.recommendations[r]
                   /\ p.averageScore = MeanOfMatches(p.matches)

\* C19 witness: more than 5 resources, one of them with more than 3
\* recommendations of different scores, ranked ahead of resources listed
\* before it.
C19_Witness ==
    /\ gen.branch = "computed"
    /\ Cardinality(PayloadResourceIds) > 5
    /\ Len(profiles) = 5
    /\ profiles[1].resource.id = "6"
    /\ Cardinality(RecsOf("6")) > 3
    /\ Len(profiles[1].matches) = 3
    /\ profiles[1].matches[1].recommendation.score # profiles[1].matches[3].recommendation.score
    /\ PayloadResourceIds \ ProfileIds # {}

\* C20: a resource without recommendations gets averageScore 0 and no
\* matches, and is not among the candidates when the payload has a resource
\* with recommendations.
C20_UnscoredExcluded ==
    gen.branch = "computed" =>
        \A id \in PayloadResourceIds :
            RecsOf(id) = {} =>
                /\ \A i \in 1..Len(profiles) :
                       profiles[i].resource.id = id =>
                           profiles[i].averageScore = Zero /\ profiles[i].matches = <<>>
                /\ (\E other \in PayloadResourceIds : RecsOf(other) # {}) => id \notin ProfileIds

\* the parsed entry a candidate's insight was merged from: the last entry of
\* the reply that the merge does not skip and that carries the candidate's id
EntryOf(heuristics, azure, id) ==
    LET entries == Matching(heuristics, azure)
    IN  entries[CHOOSE i \in 1..Len(entries) :
                    /\ EntryResourceId(entries[i]) = id
                    /\ \A j \in (i + 1)..Len(entries) : EntryResourceId(entries[j]) # id]
HasEntry(heuristics, azure, id) ==
    \E i \in 1..Len(azure) :
        /\ azure[i].t = "object"
        /\ EntryResourceId(azure[i]) = id
GoodText(j) == j.t = "string" /\ j.v # <<>>
GoodTextList(j) == /\ j.t = "array" /\ j.v # <<>>
                   /\ \A i \in 1..Len(j.v) : GoodText(j.v[i])
TextsOf(j) == [i \in 1..Len(j.v) |-> j.v[i].v]

\* C15: for a parsed entry that matches a candidate, each field of the
\* merged insight is the parsed value when that is present, non-empty and of
\* the right type, and the baseline value when it is missing, empty or of the
\* wrong type.
C15_FieldLevelMerge ==
    (gen.branch = "merged" /\ ~gen.out.threw) =>
        \A i \in 1..Len(gen.heuristics) :
            LET base == gen.heuristics[i]
                merged == gen.out.insights[i]
            IN  HasEntry(gen.heuristics, gen.azure, base.resourceId) =>
                    LET entry == EntryOf(gen.heuristics, gen.azure, base.resourceId)
                    IN  /\ \A f \in {"resourceName", "summary"} :
                               merged[f] = IF GoodText(Field(entry, f))
                                           THEN Field(entry, f).v ELSE base[f]
                        /\ \A f \in {"developmentIdeas", "skillHighlights", "skillGaps"} :
                               merged[f] = IF GoodTextList(Field(entry, f))
                                           THEN TextsOf(Field(entry, f)) ELSE base[f]
                        /\ ~NonEmptyArray(Field(entry, "suggestedProjects")) =>
                               merged.suggestedProjects = base.suggestedProjects


(* generateInsights                                                        *)
Called == "calls" \in DOMAIN gen /\ gen.calls > 0
Returned == Called /\ gen.outcome = "returned"
ParsedReply == /\ gen.reply.kind = "ok"
               /\ parseInsights(gen.reply.completion).ok
TransportFailure == gen.reply.kind \in {"status", "network"}
InsightFields == {"resourceId", "resourceName", "summary", "suggestedProjects",
                  "developmentIdeas", "skillHighlights", "skillGaps"}
RecordsWithId(records, id) == {i \in 1..Len(records) : records[i].resourceId = id}
\* the record holds the insight's fields
HoldsInsight(record, insight) ==
    \A f \in InsightFields : f \in DOMAIN record /\ record[f] = insight[f]

\* C12: after two calls in a row for the same single resource, the second
\* with a reply that parses and the file system behaving, the store holds
\* exactly one record for that resource, with usingAzure = true and the
\* fields of the insight the second call merged and returned.
C12_SecondCallWins ==
    (/\ Called
     /\ gen.calls = 2
     /\ gen.repeated
     /\ Len(payload.resources) = 1
     /\ Len(gen.heuristics) = 1
     /\ gen.configured
     /\ ParsedReply
     /\ gen.fault = "none")
    => /\ gen.outcome = "returned"
       /\ Len(gen.result.insights) = 1
       /\ \E i \in 1..Len(store.records) :
              /\ RecordsWithId(store.records, gen.heuristics[1].resourceId) = {i}
              /\ store.records[i].usingAzure = TRUE
              /\ HoldsInsight(store.records[i], gen.result.insights[1])


\* C13: when a call for an unconfigured provider, a call whose request
\* failed or a call whose reply did not parse returns, its result has
\* usingAzure = false, an error text that is not empty, and the heuristic
\* baseline as insights, each with a summary that is not empty.
C13_FallbackIsHeuristic ==
    (Returned /\ gen.branch \in {"notConfigured", "unparseable", "caught"})
    => /\ gen.result.usingAzure = FALSE
       /\ gen.result.error # Undefined
       /\ gen.result.error # <<>>
       /\ \A i \in 1..Len(gen.result.error) : gen.result.error[i] # ""
       /\ gen.result.insights = gen.heuristics
       /\ Len(gen.heuristics) = Len(profiles)
       /\ \A i \in 1..Len(gen.heuristics) :
              /\ gen.heuristics[i].resourceId = profiles[i].resource.id
              /\ gen.heuristics[i].summary # <<>>
C13_Witness ==
    /\ Returned
    /\ gen.branch = "caught"
    /\ gen.configured
    /\ TransportFailure
    /\ Len(gen.heuristics) = 2
    /\ gen.result.insights = gen.heuristics
C13_WitnessUnparseable ==
    /\ Returned
    /\ gen.branch = "unparseable"
    /\ Len(gen.heuristics) = 2

\* C14: with the provider configured and at least one candidate, a call
\* whose request fails (status that is not 2xx, or network error) returns a
\* result.
C14_TransportFailureReturns ==
    (Called /\ gen.configured /\ Len(gen.heuristics) > 0 /\ TransportFailure)
    => gen.outcome = "returned"


\* the entries of the call's parsed reply
ReplyEntries == parseInsights(gen.reply.completion).entries
ReplyIds == {EntryResourceId(ReplyEntries[i]) : i \in 1..Len(ReplyEntries)}
CandidateIds == {profiles[i].resource.id : i \in 1..Len(profiles)}

\* C16: whatever the provider replied, the insights a call returns are as
\* many as the candidates and carry the candidates' resourceIds in the
\* candidates' order; a candidate the reply has no entry for keeps its
\* heuristic baseline.
C16_OneInsightPerCandidate ==
    Returned
    => /\ Len(gen.result.insights) = Len(profiles)
       /\ \A i \in 1..Len(profiles) :
              /\ gen.result.insights[i].resourceId = profiles[i].resource.id
              /\ (gen.branch = "merged"
                  /\ ~HasEntry(gen.heuristics, ReplyEntries, profiles[i].resource.id))
                 => gen.result.insights[i] = gen.heuristics[i]
\* a merged reply with an entry for no candidate and none for a candidate
C16_Witness ==
    /\ Returned
    /\ gen.branch = "merged"
    /\ Len(profiles) = 2
    /\ ReplyIds \ CandidateIds # {}
    /\ CandidateIds \ ReplyIds # {}
    /\ Len(gen.result.insights) = 2
\* a merged reply with two entries for one candidate
C16_WitnessDuplicate ==
    /\ Returned
    /\ gen.branch = "merged"
    /\ Len(profiles) = 2
    /\ \E i, j \in 1..Len(ReplyEntries) :
           /\ i # j
           /\ EntryResourceId(ReplyEntries[i]) = EntryResourceId(ReplyEntries[j])
           /\ EntryResourceId(ReplyEntries[i]) \in CandidateIds
    /\ Len(gen.result.insights) = 2


\* the upsert the call made last
LastUpsert == gen.upserts[Len(gen.upserts)]

\* C17: a call with candidates that returns has upserted the insights it
\* returns, each stamped with the usingAzure of its result, as the one
\* upsert of the call that took effect, and the store holds them; a call of
\* the configured provider without candidates upserts nothing and leaves the
\* store as it was.
C17_ReturnsWhatItStored ==
    /\ (Returned /\ Len(gen.heuristics) > 0)
       => /\ gen.branch \in {"notConfigured", "merged", "unparseable", "caught"}
          /\ gen.upserts # <<>>
          /\ LastUpsert.outcome = "returned"
          /\ \A k \in 1..(Len(gen.upserts) - 1) : gen.upserts[k].outcome # "returned"
          /\ Len(LastUpsert.records) = Len(gen.result.insights)
          /\ \A i \in 1..Len(gen.result.insights) :
                 /\ HoldsInsight(LastUpsert.records[i], gen.result.insights[i])
                 /\ LastUpsert.records[i].usingAzure = gen.result.usingAzure
                 /\ \E n \in 1..Len(store.records) :
                        /\ RecordsWithId(store.records, gen.result.insights[i].resourceId) = {n}
                        /\ HoldsInsight(store.records[n], gen.result.insights[i])
                        /\ store.records[n].usingAzure = gen.result.usingAzure
    /\ (Called /\ gen.configured /\ Len(gen.heuristics) = 0)
       => /\ gen.branch = "noCandidates"
          /\ gen.upserts = <<>>
          /\ store = prevStore
C17_Witness ==
    /\ Returned
    /\ gen.branch = "merged"
    /\ Len(gen.heuristics) = 2
    /\ gen.result.usingAzure = TRUE
    /\ Len(gen.upserts) = 1
    /\ LastUpsert.records[1].usingAzure = TRUE
C17_WitnessNoCandidates ==
    /\ Called
    /\ gen.branch = "noCandidates"
    /\ store.records # <<>>

\* C18: a call sends one request to the provider when the provider is
\* configured and there is a candidate, whatever becomes of the request, and
\* none otherwise; never more than one.
C18_AtMostOneRequest ==
    Called
    => /\ gen.requests \in {0, 1}
       /\ gen.requests = 1 <=> (gen.configured /\ Len(gen.heuristics) > 0)
C18_Witness ==
    /\ Called
    /\ gen.configured
    /\ TransportFailure
    /\ gen.branch = "caught"
    /\ gen.requests = 1


\* C28: the result of a call, and every record the call upserts, has
\* usingAzure = true only if the call sent its request to the provider, the
\* provider answered it and the reply parsed to an array of insights.
C28_UsingAzureMeansParsedReply ==
    Called
    => ((\/ (gen.outcome = "returned" /\ gen.result.usingAzure = TRUE)
         \/ \E k \in 1..Len(gen.upserts) : \E i \in 1..Len(gen.upserts[k].records) :
                gen.upserts[k].records[i].usingAzure = TRUE)
        => (gen.requests = 1 /\ ParsedReply))


\* the call met a failing read or write of a store that existed
StoreFailed ==
    /\ Called
    /\ gen.fault # "none"
    /\ gen.upserts # <<>>
    /\ prevStore.kind = "array"

\* C23: a call during which a read or a write of the existing store fails
\* still returns a result, and the result's error field is set.
C23_StoreFailureReported ==
    StoreFailed => (gen.outcome = "returned" /\ gen.result.error # Undefined)


\* C27: in every Recommendation of every path skillCoverage lies in [0,1]
\* and matchedSkills has at most as many entries as the project has needs,
\* also for a resource that repeats a skill and a project that repeats a
\* need.
C27_CoverageInUnitInterval ==
    \A rec \in Range(recs) \cup AllRowRecs :
        /\ RLe(Zero, rec.matchDetail.skillCoverage)
        /\ RLe(rec.matchDetail.skillCoverage, One)
        /\ \A j \in 1..Len(inProjects) :
               inProjects[j].id = rec.projectId =>
                   Len(rec.matchedSkills) <= Len(inProjects[j].needs)


Suggested == gen.branch = "suggested"
NormalizedOf(list) == [i \in 1..Len(list) |-> insightNormalizeLabel(list[i])]
Distinct(list) == \A i, j \in 1..Len(list) : i # j => list[i] # list[j]
\* what the highlights are drawn from, in order: the names of the resource's
\* skills, its preferred technologies, the matched skills of its matches
HighlightSources(profile) ==
    MapSeq(LAMBDA skill : skill.name, profile.resource.skills)
        \o profile.resource.preferredTechs
        \o Concat(MapSeq(LAMBDA match : match.recommendation.matchedSkills, profile.matches))
\* where a normalized label occurs first in a list
FirstAt(list, normalized) ==
    CHOOSE i \in 1..Len(list) :
        /\ insightNormalizeLabel(list[i]) = normalized
        /\ \A j \in 1..(i - 1) : insightNormalizeLabel(list[j]) # normalized

\* C26: in every suggestion no two skillHighlights and no two skillGaps are
\* equal after trim and lower-casing, no skillGap equals a skillHighlight
\* after the same, and skillHighlights holds each label of the resource's
\* skills, preferred technologies and matched skills once, trimmed, as first
\* seen and in the order first seen.
C26_HighlightsAndGapsDistinct ==
    Suggested =>
        \A n \in 1..Len(gen.suggestions) :
            LET highlights == NormalizedOf(gen.suggestions[n].skillHighlights)
                gaps == NormalizedOf(gen.suggestions[n].skillGaps)
                sources == HighlightSources(profiles[n])
            IN  /\ Distinct(highlights)
                /\ Distinct(gaps)
                /\ Range(gaps) \cap Range(highlights) = {}
                /\ Range(highlights) = Range(NormalizedOf(sources)) \ {<<>>}
                /\ \A i \in 1..Len(highlights) :
                       /\ gen.suggestions[n].skillHighlights[i]
                              = Trim(sources[FirstAt(sources, highlights[i])])
                       /\ \A j \in (i + 1)..Len(highlights) :
                              FirstAt(sources, highlights[i]) < FirstAt(sources, highlights[j])
\* a suggestion whose sources repeat a label in another case, with a gap
\* kept and a missing skill left out because a highlight covers it
C26_Witness ==
    /\ Suggested
    /\ Len(gen.suggestions) = 1
    /\ Len(gen.suggestions[1].skillHighlights) >= 2
    /\ Len(gen.suggestions[1].skillHighlights) < Len(HighlightSources(profiles[1]))
    /\ gen.suggestions[1].skillGaps # <<>>
    /\ \E m \in 1..Len(profiles[1].matches) :
           \E k \in 1..Len(profiles[1].matches[m].missingSkills) :
               insightNormalizeLabel(profiles[1].matches[m].missingSkills[k])
                   \in Range(NormalizedOf(gen.suggestions[1].skillHighlights))


AllWritten == race.pc # <<>> /\ \A p \in Callers : race.pc[p] = "written"
\* when caller p took the step: 0 when it never did
When(p, step) ==
    IF \E k \in 1..Len(race.events) : race.events[k] = [caller |-> p, step |-> step]
    THEN CHOOSE k \in 1..Len(race.events) : race.events[k] = [caller |-> p, step |-> step]
    ELSE 0
Lost(p) == IdSeq[p] \notin IdsOf(store.records)

\* C22: upserts of different resourceIds that run at once can lose an
\* update, and only by interleaving: when every caller has written, the
\* record of the caller that wrote last is stored, and a caller's record is
\* missing only if another caller wrote after it having read, or created
\* the file, around that caller's write: read before it, or created after it.
C22_LostOnlyByInterleaving ==
    AllWritten =>
        \A p \in Callers :
            /\ (\A q \in Callers : When(q, "written") <= When(p, "written")) => ~Lost(p)
            /\ Lost(p) =>
                   \E q \in Callers \ {p} :
                       /\ When(p, "written") < When(q, "written")
                       /\ \/ When(q, "read") < When(p, "written")
                          \/ When(p, "written") < When(q, "created")
\* both callers have returned and the store lacks the first caller's record,
\* the second having read before the first wrote
C22_Witness ==
    /\ AllWritten
    /\ Lost(1)
    /\ ~Lost(2)
    /\ When(2, "read") < When(1, "written")
    /\ When(1, "written") < When(2, "written")
\* the file created anew over a record already written
C22_WitnessCreate ==
    /\ AllWritten
    /\ Lost(1)
    /\ When(1, "written") < When(2, "created")


(* reanalyzeEmployees                                                      *)
BatchStarted == batch.pc \in {"fetch", "text", "json", "done"}
BatchDone == batch.pc = "done"
\* the ids of the batch that a request threw for, or whose response had an
\* error
FailedIds ==
    {batch.uniqueIds[i] : i \in {k \in 1..Len(batch.outcomes) :
                                     batch.outcomes[k] \in {"threw", "error"}}}

\* C21: a batch sends one request per distinct id, each carrying that id
\* alone, in the order of the ids; a request is sent only when every earlier
\* one has been dealt with, so that at most one is in flight; and whatever
\* fails, the batch ends with a request sent for every id.
C21_OneRequestAtATime ==
    BatchStarted =>
        /\ batch.inFlight \in {0, 1}
        /\ Len(batch.sent) = Len(batch.outcomes) + batch.inFlight
        /\ Len(batch.sent) <= Len(batch.uniqueIds)
        /\ \A i \in 1..Len(batch.sent) : batch.sent[i] = <<batch.uniqueIds[i]>>
        /\ \A i, j \in 1..Len(batch.uniqueIds) :
               i # j => batch.uniqueIds[i] # batch.uniqueIds[j]
        /\ Range(batch.uniqueIds) = Range(batch.ids)
        /\ BatchDone => (Len(batch.sent) = Len(batch.uniqueIds) /\ batch.inFlight = 0)
\* a batch of two ids ended, the request of the first having failed
C21_Witness ==
    /\ BatchDone
    /\ Len(batch.uniqueIds) = 2
    /\ batch.outcomes[1] = "threw"
    /\ batch.sent = << <<batch.uniqueIds[1]>>, <<batch.uniqueIds[2]>> >>
\* a batch whose ids repeated one
C21_WitnessRepeated ==
    /\ BatchDone
    /\ Len(batch.ids) = 2
    /\ Len(batch.uniqueIds) = 1
    /\ Len(batch.sent) = 1

\* C29: when a batch ends, the success count and the failure count of its
\* summary add up to the number of distinct ids, and an id counts as a
\* failure exactly when its request threw or its response had an error.
C29_TalliesPartitionIds ==
    BatchDone =>
        /\ Len(batch.successIds) + Len(batch.failureDetails) = Len(batch.uniqueIds)
        /\ {batch.failureDetails[i].id : i \in 1..Len(batch.failureDetails)} = FailedIds

\* C30: a batch that has set isAnalyzing ends, every promise it awaits
\* settling: isAnalyzing returns to false with the summary as message and a
\* request sent for every id.
C30_BatchTerminates ==
    batch.isAnalyzing
        ~> (/\ ~batch.isAnalyzing
            /\ batch.pc = "done"
            /\ batch.message.kind \in {"warnings", "success"}
            /\ Len(batch.outcomes) = Len(batch.uniqueIds))
\* a batch ended after a thrown request and a success
C30_Witness ==
    /\ BatchDone
    /\ ~batch.isAnalyzing
    /\ batch.message.kind = "warnings"
    /\ Len(batch.uniqueIds) = 2
    /\ "threw" \in Range(batch.outcomes)
    /\ "ok" \in Range(batch.outcomes)


\* A catalog file the parse functions cannot take: absent, not JSON, not a
\* list, or a list with an entry that lacks its name
BrokenJson(file) ==
    \/ file.kind # "json"
    \/ file.value.t # "array"
    \/ \E i \in 1..Len(file.value.v) : file.value.v[i].name = Undefined
\* a required file of the entry point that ran is absent or malformed
RequiredFileBroken ==
    \/ /\ loader.entry = "catalog"
       /\ \E i \in 1..5 : BrokenJson(loader.files[CatalogFileNames[i]])
    \/ /\ loader.entry = "mock"
       /\ CsvAbsent \in {loader.files.projects, loader.files.resources, loader.files.affinity}
    \/ /\ loader.entry = "dataset"
       /\ \/ loader.files.projects = CsvAbsent
          \/ \E i \in 1..5 : BrokenJson(loader.files.catalog[CatalogFileNames[i]])
\* every list of the result is empty and its metadata carries an error
EmptyWithErrorMarker ==
    /\ loader.outcome = "returned"
    /\ \A field \in DOMAIN loader.result \ {"meta"} : loader.result[field] = <<>>
    /\ "meta" \in DOMAIN loader.result
    /\ loader.result.meta.error # Undefined

\* C24: when a required file is absent or malformed, the entry point that
\* read it (loadProdAmCatalog, loadMockData, buildDataset with its
\* loadProjects) returns empty lists with an error marker in the metadata
\* and throws nothing.
C24_BrokenFileGivesEmptyMarkedResult ==
    RequiredFileBroken => EmptyWithErrorMarker

\* C25: every resource of a returned dataset (loadMockData's buildResource,
\* buildDataset's buildResourceProfiles) has a numeric availability equal to
\* clamp(availabilityHours / 160, 0, 1), within [0, 1].
C25_AvailabilityIsClampedFraction ==
    (loader.entry \in {"mock", "dataset"} /\ loader.outcome = "returned") =>
        \A i \in 1..Len(loader.result.resources) :
            LET resource == loader.result.resources[i]
            IN  /\ IsNumber(resource.availabilityHours)
                /\ IsNumber(resource.availability)
                /\ resource.availability =
                       RMin(One, RMax(Zero, RMul(resource.availabilityHours,
                                                 Rat(1, REFERENCE_HOURS))))
                /\ RLe(Zero, resource.availability)
                /\ RLe(resource.availability, One)

=============================================================================
